---------------------------- MODULE Spec2Model ----------------------------
(***************************************************************************)
(* Model of the multi-model consultation program (consult.py).             *)
(*                                                                         *)
(* Spec      : the dispatcher, consult() + query_model(): bounded          *)
(*             concurrent fan-out, per-call timeout, result collection in  *)
(*             a heap, final ordering.                                     *)
(* SpecSynth : the SynthesisEngine: add_responses() followed by            *)
(*             synthesize() over a list of ModelResponse values.           *)
(* SpecWide, SpecScenario : the engine over other result lists (four       *)
(*             experts; texts that merge, the write-ahead-log scenario).   *)
(* SpecPipeline : consult() followed by the engine on what it returned.    *)
(* SpecServer : api/server.py, POST /query: validation, a thread pool of   *)
(*             query_ollama_model() calls, the sorted response.            *)
(*                                                                         *)
(* Text is modelled as Python models it: a str is a sequence of            *)
(* characters (one-character strings).  Optional[x] is a sequence of       *)
(* length 0 (None) or 1 (the value).  A float weight w is carried as the   *)
(* integer 100*w, a confidence as the pair of integers of its fraction.    *)
(***************************************************************************)
EXTENDS Integers, Sequences, FiniteSets, TLC

VARIABLES
    models,          \* consult(): the `models` dict: the set of its keys (the panel)
    max_concurrent,  \* consult(): the max_concurrent argument
    pc,              \* consult(): "collecting", "returned", or "raised"
    task,            \* per expert: position of its bounded_query task
    semaphore,       \* asyncio.Semaphore: its counter
    elapsed,         \* per expert: seconds since query_model took start_time
    calls,           \* per expert: number of session.post calls issued
    outcome,         \* per expert: what its finished task holds (result or exception)
    completed,       \* as_completed: finished tasks in completion order
    cursor,          \* as_completed: how many of them the for loop has consumed
    results_heap,    \* consult(): results_heap
    sorted_results,  \* consult(): the returned list
    inputs,          \* engine: the list handed to add_responses()
    responses,       \* engine: self.responses
    report,          \* engine: the SynthesisResult of synthesize(), or None
    spc,             \* engine: "idle", "new", "added", or "synthesized"
    h_pc,            \* server: position of the POST /query handler
    h_request,       \* server: the QueryRequest (models, timeout)
    h_calls,         \* server: per submitted call, "queued", "running" or "done"
    h_results,       \* server: per submitted call, what its future holds
    h_response,      \* server: the QueryResponse returned, or None
    f_log,           \* feedback: the lines of feedback_log.jsonl, or None
    f_stats,         \* feedback: the dict in model_stats.json ({} when absent)
    f_proc,          \* feedback: per process, where it is in _update_feedback
    f_ops,           \* feedback: number of FeedbackCapture calls made so far
    query_hashes     \* feedback: the hashes log_query has returned, in order

dvars == <<models, max_concurrent, pc, task, semaphore, elapsed, calls,
           outcome, completed, cursor, results_heap, sorted_results>>
svars == <<inputs, responses, report, spc>>
hvars == <<h_pc, h_request, h_calls, h_results, h_response>>
fvars == <<f_log, f_stats, f_proc, f_ops, query_hashes>>
vars == <<models, max_concurrent, pc, task, semaphore, elapsed, calls,
          outcome, completed, cursor, results_heap, sorted_results,
          inputs, responses, report, spc,
          h_pc, h_request, h_calls, h_results, h_response,
          f_log, f_stats, f_proc, f_ops, query_hashes>>

----------------------------------------------------------------------------
(* Bounds of the model *)

\* largest max_concurrent handed to consult()
MaxConcurrent == 2

----------------------------------------------------------------------------
(* Python values *)

None == <<>>
Some(x) == <<x>>
IsNone(o) == Len(o) = 0
Value(o) == o[1]

\* bool(x) of an Optional[str]: None and "" are falsy
Truthy(o) == Len(o) = 1 /\ Len(o[1]) > 0

\* The characters texts are made of, in code point order.
Ascii ==
    <<" ", "!", ",", "-", ".", "0", "1", "2", "3", "4", "5", "6", "7", "8",
      "9", ":", "?", "A", "B", "C", "D", "E", "F", "G", "H", "I", "J", "K",
      "L", "M", "N", "O", "P", "Q", "R", "S", "T", "U", "V", "W", "X", "Y",
      "Z", "_", "a", "b", "c", "d", "e", "f", "g", "h", "i", "j", "k", "l",
      "m", "n", "o", "p", "q", "r", "s", "t", "u", "v", "w", "x", "y", "z",
      "{", "}">>

Ord(c) == CHOOSE i \in 1..Len(Ascii) : Ascii[i] = c

\* str < str: lexicographic by code point, a proper prefix first
RECURSIVE StrLess(_, _)
StrLess(s, t) ==
    IF Len(t) = 0 THEN FALSE
    ELSE IF Len(s) = 0 THEN TRUE
    ELSE IF s[1] = t[1] THEN StrLess(Tail(s), Tail(t))
    ELSE Ord(s[1]) < Ord(t[1])

\* s[:n]
Take(s, n) == SubSeq(s, 1, IF Len(s) < n THEN Len(s) ELSE n)

Digits == <<"0", "1", "2", "3", "4", "5", "6", "7", "8", "9">>

\* str(n) of an int n >= 0, as an f-string formats it
RECURSIVE IntToStr(_)
IntToStr(n) ==
    IF n < 10 THEN <<Digits[n + 1]>>
    ELSE IntToStr(n \div 10) \o <<Digits[(n % 10) + 1]>>

----------------------------------------------------------------------------
(* The expert registry and the endpoint *)

\* Expert names (keys of MODELS): "a", "ab", "b"
NameA == <<"a">>
NameAB == <<"a", "b">>
NameB == <<"b">>
NameC == <<"c">>

\* MODELS: name -> domain, weight (in hundredths), timeout (seconds).
\* Two experts share a weight, and one name is a prefix of another.
MODELS ==
    (NameA :> [domain |-> "technical", weight |-> 15, timeout |-> 1]) @@
    (NameAB :> [domain |-> "technical", weight |-> 15, timeout |-> 1]) @@
    (NameB :> [domain |-> "meta", weight |-> 25, timeout |-> 2]) @@
    (NameC :> [domain |-> "wealth", weight |-> 10, timeout |-> 1])

\* A response text and an error body the endpoint may send.
TextOk == <<"U", "s", "e", " ", "a", " ", "l", "o", "g">>
TextBody == <<"n", "o", " ", "m", "o", "d", "e", "l">>
TextRefused == <<"C", "o", "n", "n", "e", "c", "t", " ", "f", "a", "i", "l", "e", "d">>
TextContentType == <<"u", "n", "e", "x", "p", "e", "c", "t", "e", "d", " ", "m", "i", "m", "e", "t", "y", "p", "e">>

\* What the endpoint does with one POST, other than staying silent until the
\* timeout: it refuses the connection, or answers with a status, a content
\* type and a body.  json is the body as resp.json() sees it:
\*   "object"   a JSON object; field is its "response" member
\*              (Some(text), "null" as None, or absent)
\*   "array"    valid JSON that is not an object
\*   "invalid"  not JSON at all
RepliesWith(texts) ==
    { [kind |-> "refused", status |-> 0, ctype_json |-> FALSE, json |-> "none",
       has_field |-> FALSE, field |-> None, text |-> TextRefused] }
    \cup
    { [kind |-> "http", status |-> 500, ctype_json |-> FALSE, json |-> "none",
       has_field |-> FALSE, field |-> None, text |-> TextBody] }
    \cup
    { [kind |-> "http", status |-> 200, ctype_json |-> FALSE, json |-> "none",
       has_field |-> FALSE, field |-> None, text |-> TextBody] }
    \cup
    { [kind |-> "http", status |-> 200, ctype_json |-> TRUE, json |-> j,
       has_field |-> FALSE, field |-> None, text |-> <<>>] :
         j \in {"object", "array", "invalid"} }
    \cup
    { [kind |-> "http", status |-> 200, ctype_json |-> TRUE, json |-> "object",
       has_field |-> TRUE, field |-> f, text |-> <<>>] :
         f \in {None, Some(<<>>)} \cup {Some(t) : t \in texts} }

\* The replies the dispatcher model draws from.
Replies == RepliesWith({TextOk})

----------------------------------------------------------------------------
(* query_model *)

StrHTTP == <<"H", "T", "T", "P", " ">>
StrColon == <<":", " ">>
StrTimeoutAfter == <<"T", "i", "m", "e", "o", "u", "t", " ", "a", "f", "t", "e", "r", " ">>
StrS == <<"s">>
StrMs == <<"m", "s">>

ModelResponse(name, config, response, duration_ms, status, error) ==
    [model |-> name, domain |-> config.domain, response |-> response,
     weight |-> config.weight, duration_ms |-> duration_ms,
     status |-> status, error |-> error]

\* int((time.time() - start_time) * 1000), the clock read in whole seconds
DurationMs(secs) == secs * 1000

\* A finished call: the ModelResponse it returns, or the exception it lets out.
Returned(r) == [raised |-> FALSE, exc |-> "", result |-> Some(r)]
Raised(e) == [raised |-> TRUE, exc |-> e, result |-> None]

\* data.get("response", "")
DataGet(reply) == IF reply.has_field THEN reply.field ELSE Some(<<>>)

TimeoutMessage(config) == StrTimeoutAfter \o IntToStr(config.timeout) \o StrS

\* A timeout caught by the ClientError clause instead.
QueryModelTimeoutAsError(name, config, secs) ==
    Returned(ModelResponse(name, config, None, DurationMs(secs), "error",
                           Some(TimeoutMessage(config))))

\* except asyncio.TimeoutError
QueryModelTimeout(name, config, secs) ==
    Returned(ModelResponse(name, config, None, DurationMs(secs), "timeout",
                           Some(TimeoutMessage(config))))

\* The try block and the except aiohttp.ClientError clause, for a reply that
\* arrives in time.
QueryModelReply(name, config, reply, secs) ==
    IF reply.kind = "refused"
    THEN Returned(ModelResponse(name, config, None, DurationMs(secs), "error",
                                Some(reply.text)))
    ELSE IF reply.status # 200
    THEN Returned(ModelResponse(name, config, None, DurationMs(secs), "error",
             Some(StrHTTP \o IntToStr(reply.status) \o StrColon
                  \o Take(reply.text, 100))))
    ELSE IF ~reply.ctype_json
    THEN \* resp.json(): aiohttp.ContentTypeError, a ClientError
         Returned(ModelResponse(name, config, None, DurationMs(secs), "error",
                                Some(TextContentType)))
    ELSE IF reply.json = "invalid"
    THEN Raised("JSONDecodeError")
    ELSE IF reply.json = "array"
    THEN Raised("AttributeError")
    ELSE Returned(ModelResponse(name, config, DataGet(reply), DurationMs(secs),
                                "success", None))

----------------------------------------------------------------------------
(* heapq, on the entries (-result.weight, result.model, result) *)

HeapEntry(r) == [negw |-> 0 - r.weight, model |-> r.model, result |-> r]

\* A comparison that forgets the name: entries of equal weight never order.
EntryLessWeightOnly(x, y) == x.negw < y.negw

\* tuple < tuple: the first component that differs decides
EntryLess(x, y) ==
    \/ x.negw < y.negw
    \/ x.negw = y.negw /\ StrLess(x.model, y.model)

\* heapq._siftdown(heap, startpos, pos), positions counted from 0
RECURSIVE SiftDown(_, _, _, _)
SiftDown(heap, startpos, pos, newitem) ==
    IF pos > startpos
    THEN LET parentpos == (pos - 1) \div 2
             parent == heap[parentpos + 1]
         IN  IF EntryLess(newitem, parent)
             THEN SiftDown([heap EXCEPT ![pos + 1] = parent], startpos,
                           parentpos, newitem)
             ELSE [heap EXCEPT ![pos + 1] = newitem]
    ELSE [heap EXCEPT ![pos + 1] = newitem]

\* the while loop of heapq._siftup: bubble the smaller child up to a leaf
RECURSIVE SiftUpLoop(_, _, _)
SiftUpLoop(heap, pos, endpos) ==
    LET childpos == 2 * pos + 1
        rightpos == childpos + 1
        child == IF rightpos < endpos
                    /\ ~EntryLess(heap[childpos + 1], heap[rightpos + 1])
                 THEN rightpos ELSE childpos
    IN  IF childpos < endpos
        THEN SiftUpLoop([heap EXCEPT ![pos + 1] = heap[child + 1]], child, endpos)
        ELSE <<heap, pos>>

\* heapq._siftup(heap, pos)
SiftUp(heap, pos) ==
    LET newitem == heap[pos + 1]
        leaf == SiftUpLoop(heap, pos, Len(heap))
    IN  SiftDown(leaf[1], pos, leaf[2], newitem)

\* heapq.heappush(heap, item): the heap afterwards
HeapPush(heap, item) == SiftDown(Append(heap, item), 0, Len(heap), item)

\* heapq.heappop(heap): <<the item returned, the heap afterwards>>
HeapPop(heap) ==
    LET lastelt == heap[Len(heap)]
        rest == SubSeq(heap, 1, Len(heap) - 1)
    IN  IF Len(rest) > 0
        THEN <<rest[1], SiftUp([rest EXCEPT ![1] = lastelt], 0)>>
        ELSE <<lastelt, rest>>

\* The heap list read front to back instead of popped.
DrainHeapAsStored(heap) == [i \in 1..Len(heap) |-> heap[i].result]

\* while results_heap: _, _, result = heappop(results_heap);
\*                     sorted_results.append(result)
RECURSIVE DrainHeap(_)
DrainHeap(heap) ==
    IF Len(heap) = 0 THEN <<>>
    ELSE LET popped == HeapPop(heap)
         IN  <<popped[1].result>> \o DrainHeap(popped[2])

----------------------------------------------------------------------------
(* consult: the tasks, the semaphore, the as_completed loop *)

NoOutcome == [raised |-> FALSE, exc |-> "", result |-> None]

InFlight == {e \in models : task[e] = "inflight"}

\* The panels consult() is handed: the sub-dicts of MODELS (select_models)
\* over the experts a, ab and b.  The engine is also driven with results of
\* all four experts (WidePanels).
Panels == SUBSET {NameA, NameAB, NameB}

InitEngineIdle ==
    /\ inputs = <<>>
    /\ responses = <<>>
    /\ report = None
    /\ spc = "idle"

\* The HTTP server has received no request.
InitServerIdle ==
    /\ h_pc = "idle"
    /\ h_request = None
    /\ h_calls = <<>>
    /\ h_results = <<>>
    /\ h_response = None

\* No process uses FeedbackCapture; nothing has been logged yet.
InitFeedbackIdle ==
    /\ f_log = None
    /\ f_stats = <<>>
    /\ f_proc = <<>>
    /\ f_ops = 0
    /\ query_hashes = <<>>

\* consult() up to the first suspension: the heap is empty, the semaphore is
\* full, one task per expert has been created and none has run.
Init ==
    /\ models \in Panels
    /\ max_concurrent \in 1..MaxConcurrent
    /\ pc = "collecting"
    /\ task = [e \in models |-> "waiting"]
    /\ semaphore = max_concurrent
    /\ elapsed = [e \in models |-> 0]
    /\ calls = [e \in models |-> 0]
    /\ outcome = [e \in models |-> NoOutcome]
    /\ completed = <<>>
    /\ cursor = 0
    /\ results_heap = <<>>
    /\ sorted_results = <<>>
    /\ InitEngineIdle
    /\ InitServerIdle
    /\ InitFeedbackIdle

\* An admission gate that never closes.
CanAcquireUnbounded == TRUE

\* Semaphore.acquire() without waiting: only while the counter is positive
CanAcquire == semaphore > 0

\* bounded_query: `async with semaphore` is entered, query_model takes
\* start_time and issues session.post
Acquire(e) ==
    /\ pc = "collecting"
    /\ task[e] = "waiting"
    /\ CanAcquire
    /\ semaphore' = semaphore - 1
    /\ task' = [task EXCEPT ![e] = "inflight"]
    /\ calls' = [calls EXCEPT ![e] = @ + 1]
    /\ elapsed' = [elapsed EXCEPT ![e] = 0]
    /\ UNCHANGED <<models, max_concurrent, pc, outcome, completed, cursor,
                   results_heap, sorted_results, svars, hvars, fvars>>

\* A clock that runs from the creation of the task: one second passes for
\* every call that has not finished, waiting or in flight.
TickFromCreation ==
    /\ pc = "collecting"
    /\ InFlight # {}
    /\ \A e \in InFlight : elapsed[e] < MODELS[e].timeout
    /\ elapsed' = [e \in models |->
                     IF task[e] \in {"waiting", "inflight"}
                     THEN elapsed[e] + 1 ELSE elapsed[e]]
    /\ UNCHANGED <<models, max_concurrent, pc, task, semaphore, calls, outcome,
                   completed, cursor, results_heap, sorted_results, svars, hvars, fvars>>

\* One second passes for every call in flight; a call whose ClientTimeout
\* total is used up times out before more time passes.
Tick ==
    /\ pc = "collecting"
    /\ InFlight # {}
    /\ \A e \in InFlight : elapsed[e] < MODELS[e].timeout
    /\ elapsed' = [e \in models |->
                     IF e \in InFlight THEN elapsed[e] + 1 ELSE elapsed[e]]
    /\ UNCHANGED <<models, max_concurrent, pc, task, semaphore, calls, outcome,
                   completed, cursor, results_heap, sorted_results, svars, hvars, fvars>>

\* What a finishing call leaves behind: the task is done, the semaphore is
\* released by `async with`, as_completed sees the task finish.
Finish(e, out) ==
    /\ task' = [task EXCEPT ![e] = "done"]
    /\ outcome' = [outcome EXCEPT ![e] = out]
    /\ semaphore' = semaphore + 1
    /\ completed' = Append(completed, e)
    /\ UNCHANGED <<models, max_concurrent, pc, elapsed, calls, cursor,
                   results_heap, sorted_results, svars, hvars, fvars>>

\* The endpoint answers (or refuses) within the expert's timeout.
Respond(e, reply) ==
    /\ pc = "collecting"
    /\ task[e] = "inflight"
    /\ elapsed[e] < MODELS[e].timeout
    /\ Finish(e, QueryModelReply(e, MODELS[e], reply, elapsed[e]))

\* A timeout that is let out of the task and takes the whole batch down.
TimeoutAbortsDispatch(e) ==
    /\ pc = "collecting"
    /\ task[e] = "inflight"
    /\ elapsed[e] = MODELS[e].timeout
    /\ pc' = "raised"
    /\ task' = [s \in models |-> IF task[s] = "done" THEN "done" ELSE "cancelled"]
    /\ outcome' = [outcome EXCEPT ![e] = Raised("TimeoutError")]
    /\ semaphore' = max_concurrent
    /\ UNCHANGED <<models, max_concurrent, elapsed, calls, completed, cursor,
                   results_heap, sorted_results, svars, hvars, fvars>>

\* The expert's own timeout runs out.
Timeout(e) ==
    /\ pc = "collecting"
    /\ task[e] = "inflight"
    /\ elapsed[e] = MODELS[e].timeout
    /\ Finish(e, QueryModelTimeout(e, MODELS[e], elapsed[e]))

\* for coro in as_completed(tasks): result = await coro; heappush(...)
Collect ==
    /\ pc = "collecting"
    /\ cursor < Len(completed)
    /\ ~outcome[completed[cursor + 1]].raised
    /\ results_heap' =
         HeapPush(results_heap,
                  HeapEntry(Value(outcome[completed[cursor + 1]].result)))
    /\ cursor' = cursor + 1
    /\ UNCHANGED <<models, max_concurrent, pc, task, semaphore, elapsed, calls,
                   outcome, completed, sorted_results, svars, hvars, fvars>>

\* result = await coro re-raises the exception of a task that let one out:
\* it leaves consult() and main(), and asyncio.run cancels the unfinished tasks.
Propagate ==
    /\ pc = "collecting"
    /\ cursor < Len(completed)
    /\ outcome[completed[cursor + 1]].raised
    /\ pc' = "raised"
    /\ task' = [e \in models |->
                  IF task[e] = "done" THEN "done" ELSE "cancelled"]
    /\ semaphore' = semaphore + Cardinality(InFlight)
    /\ UNCHANGED <<models, max_concurrent, elapsed, calls, outcome,
                   completed, cursor, results_heap, sorted_results, svars, hvars, fvars>>

\* The loop has consumed every task: the heap is popped into sorted_results,
\* which is returned.
Return ==
    /\ pc = "collecting"
    /\ cursor = Cardinality(models)
    /\ sorted_results' = DrainHeap(results_heap)
    /\ results_heap' = <<>>
    /\ pc' = "returned"
    /\ UNCHANGED <<models, max_concurrent, task, semaphore, elapsed, calls,
                   outcome, completed, cursor, svars, hvars, fvars>>

Next ==
    \/ \E e \in models : Acquire(e)
    \/ Tick
    \/ \E e \in models : \E reply \in Replies : Respond(e, reply)
    \/ \E e \in models : Timeout(e)
    \/ Collect
    \/ Propagate
    \/ Return

Spec == Init /\ [][Next]_vars

----------------------------------------------------------------------------
(* Properties of the dispatcher *)

Finished == {e \in models : task[e] = "done"}
HasResult(e) == task[e] = "done" /\ ~outcome[e].raised
ResultOf(e) == Value(outcome[e].result)
PositionIn(seq, x) == CHOOSE i \in 1..Len(seq) : seq[i] = x
OutputModels == [i \in 1..Len(sorted_results) |-> sorted_results[i].model]

\* C1: consult() never raises because of a per-expert failure, and what it
\* returns holds exactly len(models) results, exactly one per selected expert.
C1_Totality ==
    /\ pc # "raised"
    /\ pc = "returned" =>
         /\ Len(sorted_results) = Cardinality(models)
         /\ \A e \in models :
              Cardinality({i \in 1..Len(sorted_results) :
                             sorted_results[i].model = e}) = 1

\* C2: at every instant the calls started and not yet completed number at
\* most max_concurrent; the semaphore counts the free slots, and when none is
\* free no waiting call can start.
C2_ConcurrencyBound ==
    /\ Cardinality(InFlight) <= max_concurrent
    /\ semaphore = max_concurrent - Cardinality(InFlight)
    /\ Cardinality(InFlight) = max_concurrent =>
         \A e \in models : ~ENABLED Acquire(e)

\* C2 witness: the cap is reached while another call is still waiting.
C2_Witness ==
    /\ pc = "collecting"
    /\ Cardinality(InFlight) = max_concurrent
    /\ \E e \in models : task[e] = "waiting"

\* (-a.weight, a.model) <= (-b.weight, b.model)
KeyLeq(a, b) ==
    \/ a.weight > b.weight
    \/ a.weight = b.weight /\ (a.model = b.model \/ StrLess(a.model, b.model))

\* C3: the returned list is sorted by descending weight, equal weights by
\* ascending expert id.
C3_OutputOrdering ==
    pc = "returned" =>
        \A i \in 1..(Len(sorted_results) - 1) :
            KeyLeq(sorted_results[i], sorted_results[i + 1])

\* C3 witness: three results returned, two of equal weight, delivered in an
\* order that is not the output order.
C3_Witness ==
    /\ pc = "returned"
    /\ Len(sorted_results) = 3
    /\ \E i \in 1..2 : sorted_results[i].weight = sorted_results[i + 1].weight
    /\ completed # OutputModels

\* The place (-weight, model) gives a result among the results of the panel.
Rank(r) ==
    1 + Cardinality({e \in models :
                       HasResult(e) /\ ResultOf(e) # r /\ KeyLeq(ResultOf(e), r)})

\* C4: the returned sequence is a function of the per-expert results alone:
\* each result stands at the place its key gives it among the results, so
\* every completion order of the same results returns the same sequence.
C4_OrderIndependent ==
    pc = "returned" =>
        \A e \in models :
            /\ HasResult(e)
            /\ Rank(ResultOf(e)) <= Len(sorted_results)
            /\ sorted_results[Rank(ResultOf(e))] = ResultOf(e)

\* C4 witness: a returned batch whose last finisher is first in the output.
C4_Witness ==
    /\ pc = "returned"
    /\ Len(completed) = 3
    /\ sorted_results[1].model = completed[3]

TimedOut(e) == HasResult(e) /\ ResultOf(e).status = "timeout"

\* C5 (steps): the step in which an expert's call times out ends that call
\* only: it frees one slot, and leaves the dispatch running and every sibling's
\* task, call count and outcome as they were.
C5_TimeoutStep ==
    \A e \in models :
        (task[e] = "inflight" /\ task'[e] = "done"
         /\ ~outcome'[e].raised /\ Value(outcome'[e].result).status = "timeout")
        => /\ pc' = pc
           /\ semaphore' = semaphore + 1
           /\ \A s \in models \ {e} :
                /\ task'[s] = task[s]
                /\ outcome'[s] = outcome[s]
                /\ calls'[s] = calls[s]

\* C5 (states): a dispatch is aborted only behind a task that let an exception
\* out, never behind a timeout; and a dispatch that returns after a timeout
\* returns the timed-out expert's result and every sibling's.
C5_TimeoutState ==
    /\ pc = "raised" => /\ cursor < Len(completed)
                       /\ outcome[completed[cursor + 1]].raised
    /\ \A e \in models : task[e] = "cancelled" => pc = "raised"
    /\ (pc = "returned" /\ \E e \in models : TimedOut(e)) =>
         \A s \in models : \E i \in 1..Len(sorted_results) :
             sorted_results[i] = ResultOf(s)

\* C5: a timeout cancels only the call of its own expert.
C5_TimeoutIsolation == []C5_TimeoutState /\ [][C5_TimeoutStep]_vars

\* C5 witness: a dispatch returned in which one expert timed out and a
\* sibling that finished after it succeeded.
C5_Witness ==
    /\ pc = "returned"
    /\ \E e \in models : \E s \in models \ {e} :
         /\ TimedOut(e)
         /\ ResultOf(s).status = "success"
         /\ PositionIn(completed, e) < PositionIn(completed, s)

\* No call is issued twice, and a finished call was issued once.
IssuedOnce ==
    \A e \in models :
        /\ calls[e] <= 1
        /\ task[e] \in {"inflight", "done"} => calls[e] = 1

\* A call that used up its timeout ended with status timeout.
ExceededIsTimeout ==
    \A e \in models :
        (task[e] = "done" /\ elapsed[e] = MODELS[e].timeout) => TimedOut(e)

\* C6 as stated: a call that exceeds its expert's timeout ends with status
\* Timeout and error "Timeout after <timeoutMs>ms", and the endpoint is
\* invoked exactly once.
C6_TimeoutMsMessage ==
    /\ IssuedOnce
    /\ ExceededIsTimeout
    /\ \A e \in models :
         TimedOut(e) =>
           ResultOf(e).error =
             Some(StrTimeoutAfter \o IntToStr(MODELS[e].timeout * 1000) \o StrMs)

\* C6 amended: a call that exceeds its expert's timeout ends with status
\* timeout and error "Timeout after <timeout>s", the timeout in seconds as
\* configured, and the endpoint is invoked exactly once.
C6_TimeoutNoRetry ==
    /\ IssuedOnce
    /\ ExceededIsTimeout
    /\ \A e \in models :
         TimedOut(e) =>
           /\ ResultOf(e).error =
                Some(StrTimeoutAfter \o IntToStr(MODELS[e].timeout) \o StrS)
           /\ elapsed[e] = MODELS[e].timeout

\* C6 witness: the expert with the 2 second timeout timed out and its result
\* was returned.
C6_Witness ==
    /\ pc = "returned"
    /\ NameB \in models
    /\ TimedOut(NameB)
    /\ calls[NameB] = 1

\* C7: in every result the dispatcher produces, response is present (not
\* None) exactly when status is success.
C7_ResponseIffSuccess ==
    \A e \in models :
        HasResult(e) =>
            (~IsNone(ResultOf(e).response) <=> ResultOf(e).status = "success")

\* A reply that is a failure other than a timeout: connection refused, a
\* non-2xx status, or a 200 whose body is not the JSON object expected.
IsFailure(reply) ==
    \/ reply.kind = "refused"
    \/ reply.status # 200
    \/ ~reply.ctype_json
    \/ reply.json # "object"

\* The step of C8: a failed call leaves an error result behind.
C8_ErrorStep ==
    \A e \in models : \A reply \in Replies :
        (IsFailure(reply) /\ Respond(e, reply)) =>
            /\ ~outcome'[e].raised
            /\ Value(outcome'[e].result).status = "error"
            /\ Truthy(Value(outcome'[e].result).error)

\* C8: every non-timeout failure of a call (connection refused, non-2xx,
\* malformed payload) ends in a result with status error and a non-empty
\* error string, and not in an exception.
C8_ErrorMapping == [][C8_ErrorStep]_vars

----------------------------------------------------------------------------
(* str methods and re functions the engine uses *)

UpperCase ==
    <<"A", "B", "C", "D", "E", "F", "G", "H", "I", "J", "K", "L", "M", "N",
      "O", "P", "Q", "R", "S", "T", "U", "V", "W", "X", "Y", "Z">>
LowerCase ==
    <<"a", "b", "c", "d", "e", "f", "g", "h", "i", "j", "k", "l", "m", "n",
      "o", "p", "q", "r", "s", "t", "u", "v", "w", "x", "y", "z">>

InSeq(c, seq) == \E i \in 1..Len(seq) : seq[i] = c

\* the lower-case letter of each upper-case letter
LowerOf ==
    [c \in {UpperCase[i] : i \in 1..Len(UpperCase)} |->
       LowerCase[CHOOSE i \in 1..Len(UpperCase) : UpperCase[i] = c]]

LowerChar(c) == IF c \in DOMAIN LowerOf THEN LowerOf[c] ELSE c

\* s.lower()
Lower(s) == [i \in 1..Len(s) |-> LowerChar(s[i])]

\* \s
IsSpace(c) == c = " "
\* [.!?]
IsTerminal(c) == c \in {".", "!", "?"}
\* [\w\s-]: a word character, whitespace or a hyphen
IsKept(c) ==
    \/ InSeq(c, UpperCase) \/ InSeq(c, LowerCase) \/ InSeq(c, Digits)
    \/ c = "_" \/ IsSpace(c) \/ c = "-"

\* p in s
Contains(s, p) ==
    \E i \in 1..(Len(s) - Len(p) + 1) :
        \A k \in 1..Len(p) : s[i + k - 1] = p[k]

\* s.lstrip()
RECURSIVE LStrip(_)
LStrip(s) == IF Len(s) > 0 /\ IsSpace(s[1]) THEN LStrip(Tail(s)) ELSE s

\* s.rstrip()
RECURSIVE RStrip(_)
RStrip(s) ==
    IF Len(s) > 0 /\ IsSpace(s[Len(s)])
    THEN RStrip(SubSeq(s, 1, Len(s) - 1)) ELSE s

\* s.strip()
Strip(s) == LStrip(RStrip(s))

\* re.split(r'[.!?]\s+', text): cut at each terminal mark that whitespace
\* follows, dropping the mark and all of that whitespace
RECURSIVE SplitSentences(_)
SplitSentences(text) ==
    LET cuts == {i \in 1..(Len(text) - 1) :
                   IsTerminal(text[i]) /\ IsSpace(text[i + 1])}
    IN  IF cuts = {} THEN <<text>>
        ELSE LET i == CHOOSE c \in cuts : \A d \in cuts : c <= d
             IN  <<SubSeq(text, 1, i - 1)>>
                 \o SplitSentences(LStrip(SubSeq(text, i + 1, Len(text))))

\* re.sub(r'[^\w\s-]', '', s)
RECURSIVE RemovePunctuation(_)
RemovePunctuation(s) ==
    IF Len(s) = 0 THEN <<>>
    ELSE (IF IsKept(s[1]) THEN <<s[1]>> ELSE <<>>) \o RemovePunctuation(Tail(s))

\* s.split(): the maximal runs of non-whitespace
RECURSIVE SplitWords(_)
SplitWords(s) ==
    LET t == LStrip(s)
        spaces == {i \in 1..Len(t) : IsSpace(t[i])}
    IN  IF Len(t) = 0 THEN <<>>
        ELSE IF spaces = {} THEN <<t>>
        ELSE LET i == CHOOSE c \in spaces : \A d \in spaces : c <= d
             IN  <<SubSeq(t, 1, i - 1)>> \o SplitWords(SubSeq(t, i, Len(t)))

\* ' '.join(words)
RECURSIVE JoinWords(_)
JoinWords(ws) ==
    IF Len(ws) = 0 THEN <<>>
    ELSE IF Len(ws) = 1 THEN ws[1]
    ELSE ws[1] \o <<" ">> \o JoinWords(Tail(ws))

----------------------------------------------------------------------------
(* SynthesisEngine *)

\* SynthesisEngine.ACTION_INDICATORS
ACTION_INDICATORS ==
    <<<<"s", "h", "o", "u", "l", "d">>,
      <<"r", "e", "c", "o", "m", "m", "e", "n", "d">>,
      <<"s", "u", "g", "g", "e", "s", "t">>,
      <<"c", "o", "n", "s", "i", "d", "e", "r">>,
      <<"i", "m", "p", "l", "e", "m", "e", "n", "t">>,
      <<"s", "t", "a", "r", "t", " ", "w", "i", "t", "h">>,
      <<"b", "e", "g", "i", "n", " ", "b", "y">>,
      <<"f", "i", "r", "s", "t", " ", "s", "t", "e", "p">>,
      <<"p", "r", "i", "o", "r", "i", "t", "y">>,
      <<"c", "r", "i", "t", "i", "c", "a", "l">>,
      <<"m", "u", "s", "t">>,
      <<"n", "e", "e", "d", " ", "t", "o">>,
      <<"i", "m", "p", "o", "r", "t", "a", "n", "t", " ", "t", "o">>,
      <<"k", "e", "y", " ", "i", "s">>,
      <<"f", "o", "c", "u", "s", " ", "o", "n">>>>

\* the lower bound and the upper bound on the words of a key phrase
MinPhraseWords == 3
MaxPhraseWords == 15
\* a theme needs this many supporting models
MinThemeModels == 2
\* extract_themes returns themes[:10]
MaxThemes == 10

\* for indicator in ACTION_INDICATORS: if indicator in sentence
HasActionIndicator(sentence) ==
    \E k \in 1..Len(ACTION_INDICATORS) : Contains(sentence, ACTION_INDICATORS[k])

\* The phrase one sentence of the lowered text gives, if any: Some(phrase) or
\* None.
PhraseOf(sentence) ==
    LET ws == SplitWords(RemovePunctuation(sentence))
    IN  IF HasActionIndicator(sentence)
           /\ MinPhraseWords <= Len(ws) /\ Len(ws) <= MaxPhraseWords
        THEN Some(JoinWords(ws))
        ELSE None

\* _extract_key_phrases(text): the set that list(set(phrases)) lists
ExtractKeyPhrases(text) ==
    LET sentences == SplitSentences(Lower(text))
    IN  {Value(PhraseOf(sentences[i])) :
           i \in {j \in 1..Len(sentences) : ~IsNone(PhraseOf(sentences[j]))}}

\* A filter that tests `r.response is not None` and so keeps the empty text.
AddResponsesKeepsEmpty(rs) ==
    SelectSeq(rs, LAMBDA r : r.status = "success" /\ ~IsNone(r.response))

\* add_responses: [r for r in responses if r.status == "success" and r.response]
AddResponsesFilter(rs) ==
    SelectSeq(rs, LAMBDA r : r.status = "success" /\ Truthy(r.response))

\* A float k/n, kept as the two integers.
Fraction(k, n) == [num |-> k, den |-> n]
FracLess(x, y) == x.num * y.den < y.num * x.den
FracEq(x, y) == x.num * y.den = y.num * x.den

\* The keys of response_phrases in insertion order: the models of resp, each
\* at its first occurrence.
ModelOrder(resp) ==
    LET firsts == SelectSeq([i \in 1..Len(resp) |-> i],
                            LAMBDA i : \A j \in 1..(i - 1) :
                                           resp[j].model # resp[i].model)
    IN  [k \in 1..Len(firsts) |-> resp[firsts[k]].model]

\* response_phrases: model -> the phrases of the last response of that model
RECURSIVE ResponsePhrasesOf(_, _)
ResponsePhrasesOf(resp, order) ==
    LET m == order[1]
        last == CHOOSE i \in 1..Len(resp) :
                    /\ resp[i].model = m
                    /\ \A j \in (i + 1)..Len(resp) : resp[j].model # m
        entry == m :> ExtractKeyPhrases(Value(resp[last].response))
    IN  IF Len(order) = 1 THEN entry
        ELSE entry @@ ResponsePhrasesOf(resp, Tail(order))

ResponsePhrases(resp) == ResponsePhrasesOf(resp, ModelOrder(resp))

\* phrase_models[phrase]: the models that gave the phrase, in the insertion
\* order of response_phrases
PhraseModels(order, response_phrases, phrase) ==
    SelectSeq(order, LAMBDA m : phrase \in response_phrases[m])

\* A threshold off by one: a single model is support enough.
IsThemeSingle(supporting) == Len(supporting) >= MinThemeModels - 1

\* A theme needs the support of at least 2 models.
IsTheme(supporting) == Len(supporting) >= MinThemeModels

\* ExtractedTheme(theme, supporting_models, confidence) with
\* confidence = len(models) / len(self.responses); the evidence quotes are
\* not carried.
ExtractedTheme(phrase, supporting, total) ==
    [theme |-> phrase,
     supporting_models |-> supporting,
     confidence |-> Fraction(Len(supporting), total)]

\* A sort the wrong way round: the themes of lower confidence come first.
RECURSIVE ThemeOrdersAscending(_)
ThemeOrdersAscending(found) ==
    LET before(x, y) ==
          \/ FracLess(x.theme.confidence, y.theme.confidence)
          \/ /\ FracEq(x.theme.confidence, y.theme.confidence)
             /\ x.first < y.first
    IN  IF found = {} THEN {<<>>}
        ELSE UNION {{<<x.theme>> \o rest :
                       rest \in ThemeOrdersAscending(found \ {x})} :
                      x \in {y \in found : \A z \in found : ~before(z, y)}}

\* The orders themes.sort may leave a set of themes in, each theme with the
\* place of the first model that gave it: a theme of higher confidence comes
\* first, among equals the one an earlier model gave first, and the rest
\* come in any order.
RECURSIVE ThemeOrders(_)
ThemeOrders(found) ==
    LET before(x, y) ==
          \/ FracLess(y.theme.confidence, x.theme.confidence)
          \/ /\ FracEq(x.theme.confidence, y.theme.confidence)
             /\ x.first < y.first
    IN  IF found = {} THEN {<<>>}
        ELSE UNION {{<<x.theme>> \o rest : rest \in ThemeOrders(found \ {x})} :
                      x \in {y \in found : \A z \in found : ~before(z, y)}}

\* extract_themes: every list it may return.  phrase_models lists the phrases
\* of an earlier model before the new phrases of a later one, and
\* list(set(phrases)) lists the phrases of one model in no fixed order; so
\* themes of equal confidence first given by the same model come in any order
\* (themes.sort is stable).
ExtractThemes(resp) ==
    IF Len(resp) = 0 THEN {<<>>}
    ELSE LET order == ModelOrder(resp)
             response_phrases == ResponsePhrases(resp)
             all == UNION {response_phrases[m] : m \in DOMAIN response_phrases}
             phrase_models ==
               {[phrase |-> ph,
                 models |-> PhraseModels(order, response_phrases, ph)] :
                  ph \in all}
             found ==
               {[theme |-> ExtractedTheme(pm.phrase, pm.models, Len(resp)),
                 first |-> CHOOSE k \in 1..Len(order) :
                               order[k] = pm.models[1]] :
                  pm \in {q \in phrase_models : IsTheme(q.models)}}
         IN  {Take(themes, MaxThemes) : themes \in ThemeOrders(found)}

\* SynthesisEngine.CONFLICT_INDICATORS
CONFLICT_INDICATORS ==
    <<<<"h", "o", "w", "e", "v", "e", "r">>,
      <<"a", "l", "t", "e", "r", "n", "a", "t", "i", "v", "e", "l", "y">>,
      <<"o", "n", " ", "t", "h", "e", " ", "o", "t", "h", "e", "r", " ",
        "h", "a", "n", "d">>,
      <<"i", "n", "s", "t", "e", "a", "d">>,
      <<"b", "u", "t">>,
      <<"c", "o", "n", "v", "e", "r", "s", "e", "l", "y">>,
      <<"i", "n", " ", "c", "o", "n", "t", "r", "a", "s", "t">>,
      <<"u", "n", "l", "i", "k", "e">>,
      <<"w", "h", "e", "r", "e", "a", "s">>,
      <<"d", "i", "s", "a", "g", "r", "e", "e">>,
      <<"d", "i", "f", "f", "e", "r", "e", "n", "t", " ", "a", "p", "p",
        "r", "o", "a", "c", "h">>,
      <<"b", "e", "t", "t", "e", "r", " ", "o", "p", "t", "i", "o", "n">>>>
\* SynthesisEngine.PRIORITY_HIGH
PRIORITY_HIGH ==
    <<<<"c", "r", "i", "t", "i", "c", "a", "l">>,
      <<"m", "u", "s", "t">>,
      <<"e", "s", "s", "e", "n", "t", "i", "a", "l">>,
      <<"u", "r", "g", "e", "n", "t">>,
      <<"i", "m", "m", "e", "d", "i", "a", "t", "e", "l", "y">>,
      <<"f", "i", "r", "s", "t">>>>
\* SynthesisEngine.PRIORITY_MEDIUM
PRIORITY_MEDIUM ==
    <<<<"s", "h", "o", "u", "l", "d">>,
      <<"r", "e", "c", "o", "m", "m", "e", "n", "d">>,
      <<"i", "m", "p", "o", "r", "t", "a", "n", "t">>,
      <<"c", "o", "n", "s", "i", "d", "e", "r">>>>

\* _extract_conflict_topic: a sentence shorter than this, cut to TopicChars
TopicSentenceChars == 200
TopicChars == 100
\* _extract_position: the first TopicWords words of the topic, of which a
\* sentence must share SharedWords; the position is cut to PositionChars
TopicWords == 5
SharedWords == 2
PositionChars == 150
\* detect_conflicts returns unique_conflicts[:5]
MaxConflicts == 5
\* _extract_actions_from_response: a sentence longer than this, cut to ActionChars
ActionSentenceChars == 20
ActionChars == 200
\* _dedupe_actions groups by action[:50].lower()
ActionKeyChars == 50
\* extract_actions returns unique_actions[:10]
MaxActions == 10

StrEllipsis == <<".", ".", ".">>
StrHint ==
    <<"C", "o", "n", "s", "i", "d", "e", "r", " ", "d", "o", "m", "a", "i",
      "n", " ", "c", "o", "n", "t", "e", "x", "t", " ", "w", "h", "e", "n",
      " ", "c", "h", "o", "o", "s", "i", "n", "g", " ", "a", "p", "p", "r",
      "o", "a", "c", "h">>

SeqToSet(seq) == {seq[i] : i \in 1..Len(seq)}

\* _extract_conflict_topic(text1, text2, indicator): Some(topic) or None
ExtractConflictTopic(text1, text2, indicator) ==
    LET sents == SplitSentences(text1) \o SplitSentences(text2)
        hits == {i \in 1..Len(sents) :
                   /\ Contains(Lower(sents[i]), indicator)
                   /\ Len(sents[i]) < TopicSentenceChars}
    IN  IF hits = {} THEN None
        ELSE Some(Take(Strip(sents[CHOOSE i \in hits : \A j \in hits : i <= j]),
                       TopicChars))

\* _extract_position(text, topic)
ExtractPosition(text, topic) ==
    LET topic_words == SeqToSet(Take(SplitWords(Lower(topic)), TopicWords))
        sents == SplitSentences(text)
        hits == {i \in 1..Len(sents) :
                   Cardinality(topic_words
                               \cap SeqToSet(SplitWords(Lower(sents[i]))))
                     >= SharedWords}
    IN  IF hits = {} THEN Take(text, PositionChars) \o StrEllipsis
        ELSE Take(Strip(sents[CHOOSE i \in hits : \A j \in hits : i <= j]),
                  PositionChars)

\* _find_conflicts_between(r1, r2): the list of at most one DetectedConflict.
\* The first indicator found in either response decides (break).
FindConflictsBetween(r1, r2) ==
    LET text1 == Value(r1.response)
        text2 == Value(r2.response)
        r1_lower == Lower(text1)
        r2_lower == Lower(text2)
        found == {k \in 1..Len(CONFLICT_INDICATORS) :
                    \/ Contains(r1_lower, CONFLICT_INDICATORS[k])
                    \/ Contains(r2_lower, CONFLICT_INDICATORS[k])}
        indicator == CONFLICT_INDICATORS[CHOOSE k \in found :
                                           \A j \in found : k <= j]
        topic == ExtractConflictTopic(text1, text2, indicator)
    IN  IF found = {} THEN <<>>
        ELSE IF ~Truthy(topic) THEN <<>>
        ELSE <<[topic |-> Value(topic),
                positions |->
                  (r2.model :> ExtractPosition(text2, Value(topic)))
                  @@ (r1.model :> ExtractPosition(text1, Value(topic))),
                severity |-> "medium",
                resolution_hint |-> Some(StrHint)]>>

\* for i, r1 in enumerate(responses): for r2 in responses[i+1:]: extend
RECURSIVE ConflictsFrom(_, _, _)
ConflictsFrom(resp, i, j) ==
    IF i > Len(resp) THEN <<>>
    ELSE IF j > Len(resp) THEN ConflictsFrom(resp, i + 1, i + 2)
    ELSE FindConflictsBetween(resp[i], resp[j]) \o ConflictsFrom(resp, i, j + 1)

\* _dedupe_conflicts: the first conflict of each sorted tuple of position keys
DedupeConflicts(conflicts) ==
    SelectSeq([i \in 1..Len(conflicts) |-> [at |-> i, c |-> conflicts[i]]],
              LAMBDA x : \A j \in 1..(x.at - 1) :
                  DOMAIN conflicts[j].positions # DOMAIN x.c.positions)

\* detect_conflicts without the cut to the top 5.
DetectConflictsUncapped(resp) ==
    IF Len(resp) < 2 THEN <<>>
    ELSE LET unique == DedupeConflicts(ConflictsFrom(resp, 1, 2))
         IN  [i \in 1..Len(unique) |-> unique[i].c]

\* detect_conflicts
DetectConflicts(resp) ==
    IF Len(resp) < 2 THEN <<>>
    ELSE LET unique == DedupeConflicts(ConflictsFrom(resp, 1, 2))
         IN  Take([i \in 1..Len(unique) |-> unique[i].c], MaxConflicts)

ContainsAny(text, wordlist) ==
    \E k \in 1..Len(wordlist) : Contains(text, wordlist[k])

\* The tiers tried in the other order: a medium keyword wins over a high one.
DeterminePriorityMediumFirst(text) ==
    IF ContainsAny(text, PRIORITY_MEDIUM) THEN "medium"
    ELSE IF ContainsAny(text, PRIORITY_HIGH) THEN "high"
    ELSE "low"

\* _determine_priority(text)
DeterminePriority(text) ==
    IF ContainsAny(text, PRIORITY_HIGH) THEN "high"
    ELSE IF ContainsAny(text, PRIORITY_MEDIUM) THEN "medium"
    ELSE "low"

\* priority_order.get(a.priority, 3)
PriorityOrder(p) ==
    IF p = "high" THEN 0 ELSE IF p = "medium" THEN 1
    ELSE IF p = "low" THEN 2 ELSE 3

\* _extract_actions_from_response(r)
ExtractActionsFromResponse(r) ==
    LET sents == SplitSentences(Value(r.response))
        picked == SelectSeq(sents, LAMBDA sent :
                     /\ ContainsAny(Lower(sent), ACTION_INDICATORS)
                     /\ Len(sent) > ActionSentenceChars)
    IN  [i \in 1..Len(picked) |->
           [action |-> Take(Strip(picked[i]), ActionChars),
            priority |-> DeterminePriority(Lower(picked[i])),
            source_models |-> {r.model},
            domain |-> r.domain,
            recommended_by |-> 1]]

\* for r in self.responses: actions.extend(...)
RECURSIVE AllActions(_)
AllActions(resp) ==
    IF Len(resp) = 0 THEN <<>>
    ELSE ExtractActionsFromResponse(resp[1]) \o AllActions(Tail(resp))

\* a.action[:50].lower()
ActionKey(a) == Lower(Take(a.action, ActionKeyChars))

\* A merge that keeps the first member of each group instead of its best.
DedupeActionsFirstMember(actions) ==
    LET firsts == SelectSeq([i \in 1..Len(actions) |-> i],
                            LAMBDA i : \A j \in 1..(i - 1) :
                                ActionKey(actions[j]) # ActionKey(actions[i]))
        Sources(i) == UNION {actions[j].source_models :
                               j \in {k \in 1..Len(actions) :
                                        ActionKey(actions[k]) = ActionKey(actions[i])}}
    IN  [g \in 1..Len(firsts) |->
           [action |-> actions[firsts[g]].action,
            priority |-> actions[firsts[g]].priority,
            source_models |-> Sources(firsts[g]),
            domain |-> actions[firsts[g]].domain,
            recommended_by |-> Cardinality(Sources(firsts[g]))]]

\* _dedupe_actions: one item per key, in the order the keys first appear; it
\* carries the first member of the best priority and the set of all sources
\* (rationale "Recommended by <n> model(s)" is carried as n).
DedupeActions(actions) ==
    LET firsts == SelectSeq([i \in 1..Len(actions) |-> i],
                            LAMBDA i : \A j \in 1..(i - 1) :
                                ActionKey(actions[j]) # ActionKey(actions[i]))
        Group(i) == {j \in 1..Len(actions) :
                       ActionKey(actions[j]) = ActionKey(actions[i])}
        Best(i) == CHOOSE j \in Group(i) :
                     \A k \in Group(i) :
                        \/ PriorityOrder(actions[j].priority)
                             < PriorityOrder(actions[k].priority)
                        \/ /\ PriorityOrder(actions[j].priority)
                                = PriorityOrder(actions[k].priority)
                           /\ j <= k
        Sources(i) == UNION {actions[j].source_models : j \in Group(i)}
    IN  [g \in 1..Len(firsts) |->
           [action |-> actions[Best(firsts[g])].action,
            priority |-> actions[Best(firsts[g])].priority,
            source_models |-> Sources(firsts[g]),
            domain |-> actions[Best(firsts[g])].domain,
            recommended_by |-> Cardinality(Sources(firsts[g]))]]

\* No sort: the merged items stay in the order their keys first appear.
SortByPriorityUnsorted(items) == items

\* list.sort(key=priority_order...): stable
SortByPriority(items) ==
    LET WithRank(p) == SelectSeq(items, LAMBDA a : PriorityOrder(a.priority) = p)
    IN  WithRank(0) \o WithRank(1) \o WithRank(2) \o WithRank(3)

\* extract_actions
ExtractActions(resp) ==
    Take(SortByPriority(DedupeActions(AllActions(resp))), MaxActions)

\* Counter(r.domain for r in self.responses), as a dict
DomainCoverage(resp) ==
    [d \in {resp[i].domain : i \in 1..Len(resp)} |->
       Cardinality({i \in 1..Len(resp) : resp[i].domain = d})]

RECURSIVE SumConfidence(_)
SumConfidence(themes) ==
    IF Len(themes) = 0 THEN 0
    ELSE themes[1].confidence.num + SumConfidence(Tail(themes))

\* A clamp that forgets the lower end: min(1, x).
ClampUpperOnly(x) == IF x.num >= x.den THEN Fraction(1, 1) ELSE x

\* max(0, min(1, x))
Clamp(x) ==
    IF x.num * x.den <= 0 THEN Fraction(0, 1)
    ELSE IF x.num >= x.den THEN Fraction(1, 1)
    ELSE x

\* calculate_consensus without the conflict penalty.
CalculateConsensusNoPenalty(resp, themes, conflicts) ==
    IF Len(resp) < 2 THEN Fraction(1, 1)
    ELSE LET count == IF Len(themes) > 1 THEN Len(themes) ELSE 1
         IN  Clamp(Fraction(SumConfidence(themes), Len(resp) * count))

\* calculate_consensus without the early return for fewer than 2 responses.
CalculateConsensusUnguarded(resp, themes, conflicts) ==
    LET count == IF Len(themes) > 1 THEN Len(themes) ELSE 1
    IN  Clamp(Fraction(10 * SumConfidence(themes)
                         - Len(conflicts) * Len(resp) * count,
                       10 * Len(resp) * count))

\* calculate_consensus with the theme score of an empty theme list taken as 1.
CalculateConsensusEmptyAgrees(resp, themes, conflicts) ==
    IF Len(resp) < 2 THEN Fraction(1, 1)
    ELSE IF Len(themes) = 0
         THEN Clamp(Fraction(10 - Len(conflicts), 10))
         ELSE Clamp(Fraction(10 * SumConfidence(themes)
                               - Len(conflicts) * Len(resp) * Len(themes),
                             10 * Len(resp) * Len(themes)))

\* calculate_consensus, given what its own extract_themes() and
\* detect_conflicts() return: theme_score - len(conflicts) * 0.1, clamped.
\* Every confidence has the denominator len(self.responses).
CalculateConsensus(resp, themes, conflicts) ==
    IF Len(resp) < 2 THEN Fraction(1, 1)
    ELSE LET count == IF Len(themes) > 1 THEN Len(themes) ELSE 1
         IN  Clamp(Fraction(10 * SumConfidence(themes)
                              - Len(conflicts) * Len(resp) * count,
                            10 * Len(resp) * count))

\* total_models=len(self.responses)
\*              + sum(1 for r in self.responses if r.status != "success")
TotalModels(resp) ==
    Len(resp) + Cardinality({i \in 1..Len(resp) : resp[i].status # "success"})

\* synthesize: the SynthesisResult built from what extract_themes,
\* detect_conflicts, extract_actions and calculate_consensus returned
SynthesisResult(resp, themes, conflicts, action_items, consensus_score) ==
    [themes |-> themes,
     conflicts |-> conflicts,
     action_items |-> action_items,
     domain_coverage |-> DomainCoverage(resp),
     consensus_score |-> consensus_score,
     total_models |-> TotalModels(resp),
     successful_models |-> Len(resp)]

\* synthesize: every SynthesisResult it may return
Synthesis(resp) ==
    LET lists == ExtractThemes(resp)
        conflicts == DetectConflicts(resp)
        action_items == ExtractActions(resp)
        \* calculate_consensus calls extract_themes again
        scores == {CalculateConsensus(resp, themes_again, conflicts) :
                     themes_again \in lists}
    IN  {SynthesisResult(resp, themes, conflicts, action_items,
                         consensus_score) :
           themes \in lists, consensus_score \in scores}

----------------------------------------------------------------------------
(* The engine as main() drives it: engine = SynthesisEngine();
   engine.add_responses(results); engine.synthesize(question) *)

\* "You should use a log."
TextLog ==
    <<"Y", "o", "u", " ", "s", "h", "o", "u", "l", "d", " ", "u", "s", "e",
      " ", "a", " ", "l", "o", "g", ".">>
\* "We agree. You should use a LOG! However, test it first."
TextAgree ==
    <<"W", "e", " ", "a", "g", "r", "e", "e", ".", " ", "Y", "o", "u", " ",
      "s", "h", "o", "u", "l", "d", " ", "u", "s", "e", " ", "a", " ", "L",
      "O", "G", "!", " ", "H", "o", "w", "e", "v", "e", "r", ",", " ", "t",
      "e", "s", "t", " ", "i", "t", " ", "f", "i", "r", "s", "t", ".">>
\* "Consider a queue instead"
TextQueue ==
    <<"C", "o", "n", "s", "i", "d", "e", "r", " ", "a", " ", "q", "u", "e",
      "u", "e", " ", "i", "n", "s", "t", "e", "a", "d">>
\* "You should use a log. You must act now."
TextBoth ==
    <<"Y", "o", "u", " ", "s", "h", "o", "u", "l", "d", " ", "u", "s", "e",
      " ", "a", " ", "l", "o", "g", ".", " ", "Y", "o", "u", " ", "m", "u",
      "s", "t", " ", "a", "c", "t", " ", "n", "o", "w", ".">>
\* "You must act now! you should use a log"
TextBothReversed ==
    <<"Y", "o", "u", " ", "m", "u", "s", "t", " ", "a", "c", "t", " ", "n",
      "o", "w", "!", " ", "y", "o", "u", " ", "s", "h", "o", "u", "l", "d",
      " ", "u", "s", "e", " ", "a", " ", "l", "o", "g">>
\* "Should we"
TextShort ==
    <<"S", "h", "o", "u", "l", "d", " ", "w", "e">>

\* One sentence of 200 characters:
\* "The write ahead log keeps every record durable across crashes and
\* restarts of the broker, however the plain append log is far easier to
\* operate, to reason about, to back up and to move between regions"
TextLongHowever ==
    <<"T", "h", "e", " ", "w", "r", "i", "t", "e", " ", "a", "h", "e", "a",
      "d", " ", "l", "o", "g", " ", "k", "e", "e", "p", "s", " ", "e", "v",
      "e", "r", "y", " ", "r", "e", "c", "o", "r", "d", " ", "d", "u", "r",
      "a", "b", "l", "e", " ", "a", "c", "r", "o", "s", "s", " ", "c", "r",
      "a", "s", "h", "e", "s", " ", "a", "n", "d", " ", "r", "e", "s", "t",
      "a", "r", "t", "s", " ", "o", "f", " ", "t", "h", "e", " ", "b", "r",
      "o", "k", "e", "r", ",", " ", "h", "o", "w", "e", "v", "e", "r", " ",
      "t", "h", "e", " ", "p", "l", "a", "i", "n", " ", "a", "p", "p", "e",
      "n", "d", " ", "l", "o", "g", " ", "i", "s", " ", "f", "a", "r", " ",
      "e", "a", "s", "i", "e", "r", " ", "t", "o", " ", "o", "p", "e", "r",
      "a", "t", "e", ",", " ", "t", "o", " ", "r", "e", "a", "s", "o", "n",
      " ", "a", "b", "o", "u", "t", ",", " ", "t", "o", " ", "b", "a", "c",
      "k", " ", "u", "p", " ", "a", "n", "d", " ", "t", "o", " ", "m", "o",
      "v", "e", " ", "b", "e", "t", "w", "e", "e", "n", " ", "r", "e", "g",
      "i", "o", "n", "s">>
\* "Focus on the write ahead log for every durable queue"
TextFocus ==
    <<"F", "o", "c", "u", "s", " ", "o", "n", " ", "t", "h", "e", " ", "w",
      "r", "i", "t", "e", " ", "a", "h", "e", "a", "d", " ", "l", "o", "g",
      " ", "f", "o", "r", " ", "e", "v", "e", "r", "y", " ", "d", "u", "r",
      "a", "b", "l", "e", " ", "q", "u", "e", "u", "e">>
\* "FOCUS ON the write ahead log for every durable queue, it is a must"
TextFocusMust ==
    <<"F", "O", "C", "U", "S", " ", "O", "N", " ", "t", "h", "e", " ", "w",
      "r", "i", "t", "e", " ", "a", "h", "e", "a", "d", " ", "l", "o", "g",
      " ", "f", "o", "r", " ", "e", "v", "e", "r", "y", " ", "d", "u", "r",
      "a", "b", "l", "e", " ", "q", "u", "e", "u", "e", ",", " ", "i", "t",
      " ", "i", "s", " ", "a", " ", "m", "u", "s", "t">>
\* "Focus on the write ahead log for every durable queue as you should"
TextFocusShould ==
    <<"F", "o", "c", "u", "s", " ", "o", "n", " ", "t", "h", "e", " ", "w",
      "r", "i", "t", "e", " ", "a", "h", "e", "a", "d", " ", "l", "o", "g",
      " ", "f", "o", "r", " ", "e", "v", "e", "r", "y", " ", "d", "u", "r",
      "a", "b", "l", "e", " ", "q", "u", "e", "u", "e", " ", "a", "s", " ",
      "y", "o", "u", " ", "s", "h", "o", "u", "l", "d">>
\* "You should start with a WAL, however a simpler log may suffice"
TextWalA ==
    <<"Y", "o", "u", " ", "s", "h", "o", "u", "l", "d", " ", "s", "t", "a",
      "r", "t", " ", "w", "i", "t", "h", " ", "a", " ", "W", "A", "L", ",",
      " ", "h", "o", "w", "e", "v", "e", "r", " ", "a", " ", "s", "i", "m",
      "p", "l", "e", "r", " ", "l", "o", "g", " ", "m", "a", "y", " ", "s",
      "u", "f", "f", "i", "c", "e">>
\* "We recommend starting with a WAL for durability"
TextWalB ==
    <<"W", "e", " ", "r", "e", "c", "o", "m", "m", "e", "n", "d", " ", "s",
      "t", "a", "r", "t", "i", "n", "g", " ", "w", "i", "t", "h", " ", "a",
      " ", "W", "A", "L", " ", "f", "o", "r", " ", "d", "u", "r", "a", "b",
      "i", "l", "i", "t", "y">>
\* "Consider a simpler append log instead"
TextWalC ==
    <<"C", "o", "n", "s", "i", "d", "e", "r", " ", "a", " ", "s", "i", "m",
      "p", "l", "e", "r", " ", "a", "p", "p", "e", "n", "d", " ", "l", "o",
      "g", " ", "i", "n", "s", "t", "e", "a", "d">>
\* The response texts the experts may give.
Texts == {TextLog, TextAgree, TextQueue, TextBoth, TextBothReversed, TextShort}

\* An endpoint that does not answer before the timeout.
Silent ==
    [kind |-> "silent", status |-> 0, ctype_json |-> FALSE, json |-> "none",
     has_field |-> FALSE, field |-> None, text |-> <<>>]

\* What the endpoints did in the dispatch whose results the engine is handed:
\* no answer in time, an HTTP error, or a JSON object with no text, an empty
\* text or one of Texts.
EngineReplies ==
    {r \in RepliesWith(Texts) : r.status = 500 \/ r.json = "object"}
    \cup {Silent}

\* The result query_model builds for expert e from that.
EngineInput(e, reply) ==
    IF reply.kind = "silent"
    THEN Value(QueryModelTimeout(e, MODELS[e], MODELS[e].timeout).result)
    ELSE Value(QueryModelReply(e, MODELS[e], reply, 0).result)

\* A set of results of distinct experts in the order consult() returns them.
RECURSIVE SortedByKey(_)
SortedByKey(rs) ==
    IF rs = {} THEN <<>>
    ELSE LET least == CHOOSE r \in rs : \A q \in rs : KeyLeq(r, q)
         IN  <<least>> \o SortedByKey(rs \ {least})

\* consult() is not running.
InitDispatcherIdle ==
    /\ models = {}
    /\ max_concurrent = 1
    /\ pc = "idle"
    /\ task = <<>>
    /\ semaphore = 0
    /\ elapsed = <<>>
    /\ calls = <<>>
    /\ outcome = <<>>
    /\ completed = <<>>
    /\ cursor = 0
    /\ results_heap = <<>>
    /\ sorted_results = <<>>

\* SynthesisEngine(): self.responses = []; the list it will be handed is any
\* list consult() can return
InitSynth ==
    /\ InitDispatcherIdle
    /\ InitServerIdle
    /\ InitFeedbackIdle
    /\ \E panel \in Panels :
         \E reply \in [panel -> EngineReplies] :
             inputs = SortedByKey({EngineInput(e, reply[e]) : e \in panel})
    /\ responses = <<>>
    /\ report = None
    /\ spc = "new"

\* engine.add_responses(results)
AddResponses ==
    /\ spc = "new"
    /\ responses' = AddResponsesFilter(inputs)
    /\ spc' = "added"
    /\ UNCHANGED <<inputs, report, dvars, hvars, fvars>>

\* engine.synthesize(question)
Synthesize ==
    /\ spc = "added"
    /\ \E result \in Synthesis(responses) : report' = Some(result)
    /\ spc' = "synthesized"
    /\ UNCHANGED <<inputs, responses, dvars, hvars, fvars>>

NextSynth ==
    \/ AddResponses
    \/ Synthesize

SpecSynth == InitSynth /\ [][NextSynth]_vars

\* The engine over the results of up to four experts, each of which timed
\* out or answered with a text: one without a conflict indicator, one with
\* "instead", or one with "however" in a sentence of 200 characters.
WideTexts == {TextLog, TextQueue, TextLongHowever}
WidePanels == SUBSET (DOMAIN MODELS)
WideReplies ==
    {r \in RepliesWith(WideTexts) : r.json = "object" /\ Truthy(r.field)}
    \cup {Silent}

InitWide ==
    /\ InitDispatcherIdle
    /\ InitServerIdle
    /\ InitFeedbackIdle
    /\ \E panel \in WidePanels :
         \E reply \in [panel -> WideReplies] :
             inputs = SortedByKey({EngineInput(e, reply[e]) : e \in panel})
    /\ responses = <<>>
    /\ report = None
    /\ spc = "new"

SpecWide == InitWide /\ [][NextSynth]_vars

\* "You should first back up the log"
TextShouldFirst ==
    <<"Y", "o", "u", " ", "s", "h", "o", "u", "l", "d", " ", "f", "i", "r",
      "s", "t", " ", "b", "a", "c", "k", " ", "u", "p", " ", "t", "h", "e",
      " ", "l", "o", "g">>

\* The engine over the results of up to three experts, each of which timed
\* out or answered with a text: one of three that agree in their first 50
\* characters up to case and differ in priority, one of the three of the
\* write-ahead-log scenario, or one with "should" and "first" in one sentence.
ScenarioTexts ==
    {TextFocus, TextFocusMust, TextFocusShould, TextWalA, TextWalB, TextWalC,
     TextShouldFirst}
ScenarioReplies ==
    {r \in RepliesWith(ScenarioTexts) : r.json = "object" /\ Truthy(r.field)}
    \cup {Silent}

InitScenario ==
    /\ InitDispatcherIdle
    /\ InitServerIdle
    /\ InitFeedbackIdle
    /\ \E panel \in Panels :
         \E reply \in [panel -> ScenarioReplies] :
             inputs = SortedByKey({EngineInput(e, reply[e]) : e \in panel})
    /\ responses = <<>>
    /\ report = None
    /\ spc = "new"

SpecScenario == InitScenario /\ [][NextSynth]_vars

\* Eleven sentences, one for every set of two or more of the four experts: each
\* is an action sentence of more than 20 characters and a key phrase of 6
\* words; k, n, r have no priority keyword, l, p, t, w have "should" and
\* m, q, v, z have "must".  The text of an expert is made of the sentences of
\* the sets it belongs to: k (b, a, ab, c), l (b, a, ab), m (b, a, c),
\* n (b, ab, c), p (b, a), q (b, ab), r (b, c), t (a, ab, c), v (a, ab),
\* w (a, c), z (ab, c).
\* "We focus on the task k. We should do the task l. We must do the task m.
\* We focus on the task n. We should do the task p. We must do the task q.
\* We focus on the task r"
TextTasksB ==
    <<"W", "e", " ", "f", "o", "c", "u", "s", " ", "o", "n", " ", "t", "h",
      "e", " ", "t", "a", "s", "k", " ", "k", ".", " ", "W", "e", " ", "s",
      "h", "o", "u", "l", "d", " ", "d", "o", " ", "t", "h", "e", " ", "t",
      "a", "s", "k", " ", "l", ".", " ", "W", "e", " ", "m", "u", "s", "t",
      " ", "d", "o", " ", "t", "h", "e", " ", "t", "a", "s", "k", " ", "m",
      ".", " ", "W", "e", " ", "f", "o", "c", "u", "s", " ", "o", "n", " ",
      "t", "h", "e", " ", "t", "a", "s", "k", " ", "n", ".", " ", "W", "e",
      " ", "s", "h", "o", "u", "l", "d", " ", "d", "o", " ", "t", "h", "e",
      " ", "t", "a", "s", "k", " ", "p", ".", " ", "W", "e", " ", "m", "u",
      "s", "t", " ", "d", "o", " ", "t", "h", "e", " ", "t", "a", "s", "k",
      " ", "q", ".", " ", "W", "e", " ", "f", "o", "c", "u", "s", " ", "o",
      "n", " ", "t", "h", "e", " ", "t", "a", "s", "k", " ", "r">>
\* "We focus on the task k. We should do the task l. We must do the task m.
\* We should do the task p. We should do the task t. We must do the task v.
\* We should do the task w"
TextTasksA ==
    <<"W", "e", " ", "f", "o", "c", "u", "s", " ", "o", "n", " ", "t", "h",
      "e", " ", "t", "a", "s", "k", " ", "k", ".", " ", "W", "e", " ", "s",
      "h", "o", "u", "l", "d", " ", "d", "o", " ", "t", "h", "e", " ", "t",
      "a", "s", "k", " ", "l", ".", " ", "W", "e", " ", "m", "u", "s", "t",
      " ", "d", "o", " ", "t", "h", "e", " ", "t", "a", "s", "k", " ", "m",
      ".", " ", "W", "e", " ", "s", "h", "o", "u", "l", "d", " ", "d", "o",
      " ", "t", "h", "e", " ", "t", "a", "s", "k", " ", "p", ".", " ", "W",
      "e", " ", "s", "h", "o", "u", "l", "d", " ", "d", "o", " ", "t", "h",
      "e", " ", "t", "a", "s", "k", " ", "t", ".", " ", "W", "e", " ", "m",
      "u", "s", "t", " ", "d", "o", " ", "t", "h", "e", " ", "t", "a", "s",
      "k", " ", "v", ".", " ", "W", "e", " ", "s", "h", "o", "u", "l", "d",
      " ", "d", "o", " ", "t", "h", "e", " ", "t", "a", "s", "k", " ", "w">>
\* "We focus on the task k. We should do the task l. We focus on the task
\* n. We must do the task q. We should do the task t. We must do the task
\* v. We must do the task z"
TextTasksAB ==
    <<"W", "e", " ", "f", "o", "c", "u", "s", " ", "o", "n", " ", "t", "h",
      "e", " ", "t", "a", "s", "k", " ", "k", ".", " ", "W", "e", " ", "s",
      "h", "o", "u", "l", "d", " ", "d", "o", " ", "t", "h", "e", " ", "t",
      "a", "s", "k", " ", "l", ".", " ", "W", "e", " ", "f", "o", "c", "u",
      "s", " ", "o", "n", " ", "t", "h", "e", " ", "t", "a", "s", "k", " ",
      "n", ".", " ", "W", "e", " ", "m", "u", "s", "t", " ", "d", "o", " ",
      "t", "h", "e", " ", "t", "a", "s", "k", " ", "q", ".", " ", "W", "e",
      " ", "s", "h", "o", "u", "l", "d", " ", "d", "o", " ", "t", "h", "e",
      " ", "t", "a", "s", "k", " ", "t", ".", " ", "W", "e", " ", "m", "u",
      "s", "t", " ", "d", "o", " ", "t", "h", "e", " ", "t", "a", "s", "k",
      " ", "v", ".", " ", "W", "e", " ", "m", "u", "s", "t", " ", "d", "o",
      " ", "t", "h", "e", " ", "t", "a", "s", "k", " ", "z">>
\* "We focus on the task k. We must do the task m. We focus on the task n.
\* We focus on the task r. We should do the task t. We should do the task
\* w. We must do the task z"
TextTasksC ==
    <<"W", "e", " ", "f", "o", "c", "u", "s", " ", "o", "n", " ", "t", "h",
      "e", " ", "t", "a", "s", "k", " ", "k", ".", " ", "W", "e", " ", "m",
      "u", "s", "t", " ", "d", "o", " ", "t", "h", "e", " ", "t", "a", "s",
      "k", " ", "m", ".", " ", "W", "e", " ", "f", "o", "c", "u", "s", " ",
      "o", "n", " ", "t", "h", "e", " ", "t", "a", "s", "k", " ", "n", ".",
      " ", "W", "e", " ", "f", "o", "c", "u", "s", " ", "o", "n", " ", "t",
      "h", "e", " ", "t", "a", "s", "k", " ", "r", ".", " ", "W", "e", " ",
      "s", "h", "o", "u", "l", "d", " ", "d", "o", " ", "t", "h", "e", " ",
      "t", "a", "s", "k", " ", "t", ".", " ", "W", "e", " ", "s", "h", "o",
      "u", "l", "d", " ", "d", "o", " ", "t", "h", "e", " ", "t", "a", "s",
      "k", " ", "w", ".", " ", "W", "e", " ", "m", "u", "s", "t", " ", "d",
      "o", " ", "t", "h", "e", " ", "t", "a", "s", "k", " ", "z">>

\* The text of expert e among these four.
TasksOf(e) ==
    IF e = NameB THEN TextTasksB
    ELSE IF e = NameA THEN TextTasksA
    ELSE IF e = NameAB THEN TextTasksAB
    ELSE TextTasksC

\* What the endpoint of expert e did: it gave that text, or no answer in time.
TasksReplies(e) ==
    {r \in RepliesWith({TasksOf(e)}) : r.json = "object" /\ Truthy(r.field)}
    \cup {Silent}

\* The engine over the results of up to four experts, each of which timed
\* out or answered with its text of the eleven sentences.
InitTasks ==
    /\ InitDispatcherIdle
    /\ InitServerIdle
    /\ InitFeedbackIdle
    /\ \E panel \in WidePanels :
         \E reply \in {f \in [panel -> UNION {TasksReplies(e) : e \in panel}] :
                          \A e \in panel : f[e] \in TasksReplies(e)} :
             inputs = SortedByKey({EngineInput(e, reply[e]) : e \in panel})
    /\ responses = <<>>
    /\ report = None
    /\ spc = "new"

SpecTasks == InitTasks /\ [][NextSynth]_vars

\* consult() followed by the engine on the list it returned:
\* results = await consult(...); engine = SynthesisEngine()
NewEngine ==
    /\ pc = "returned"
    /\ spc = "idle"
    /\ inputs' = sorted_results
    /\ responses' = <<>>
    /\ report' = None
    /\ spc' = "new"
    /\ UNCHANGED <<dvars, hvars, fvars>>

NextPipeline ==
    \/ Next
    \/ NewEngine
    \/ AddResponses
    \/ Synthesize

SpecPipeline == Init /\ [][NextPipeline]_vars

----------------------------------------------------------------------------
(* Properties of the engine *)

\* The results handed to the engine with status success and non-empty response.
Successful == {i \in 1..Len(inputs) : inputs[i].status = "success"
                                      /\ Truthy(inputs[i].response)}
\* The results handed to the engine that failed or timed out.
FailedOrTimedOut == {i \in 1..Len(inputs) : inputs[i].status \in {"error", "timeout"}}
\* The results handed to the engine with status success.
StatusSuccess == {i \in 1..Len(inputs) : inputs[i].status = "success"}

Synthesized == spc = "synthesized"
Report == Value(report)

\* C9: with the full dispatch result list handed to the engine, the report's
\* total_models is the number of successful results plus the number of failed
\* or timed-out ones, successful_models is the number of results with status
\* success and non-empty response, and with fewer than two of those the
\* report has no themes, no conflicts and consensus 1.0.
C9_ExpertCounting ==
    Synthesized =>
        /\ Report.total_models
             = Cardinality(StatusSuccess) + Cardinality(FailedOrTimedOut)
        /\ Report.successful_models = Cardinality(Successful)
        /\ Cardinality(Successful) < 2 =>
             /\ Report.themes = <<>>
             /\ Report.conflicts = <<>>
             /\ FracEq(Report.consensus_score, Fraction(1, 1))

\* C10: every theme extract_themes returns has at least 2 distinct
\* supporting experts, and its confidence is the number of its supporting
\* experts over the number of successful results, a value in (0, 1].
C10_ThemeSupport ==
    Synthesized =>
        \A i \in 1..Len(Report.themes) :
            LET theme == Report.themes[i]
                supporting == SeqToSet(theme.supporting_models)
            IN  /\ Cardinality(supporting) >= 2
                /\ Cardinality(supporting) = Len(theme.supporting_models)
                /\ theme.confidence.num = Cardinality(supporting)
                /\ theme.confidence.den = Cardinality(Successful)
                /\ 0 < theme.confidence.num
                /\ theme.confidence.num <= theme.confidence.den

\* C10 witness: a report over three successful results with two themes, one
\* supported by all three experts and one by two of them.
C10_Witness ==
    /\ Synthesized
    /\ Cardinality(Successful) = 3
    /\ \E i, j \in 1..Len(Report.themes) :
         /\ Len(Report.themes[i].supporting_models) = 3
         /\ Len(Report.themes[j].supporting_models) = 2

\* C11: the consensus score of every report lies in [0, 1], and it is exactly
\* 1 when fewer than 2 successful results were handed in.
C11_ConsensusBounds ==
    Synthesized =>
        /\ ~FracLess(Report.consensus_score, Fraction(0, 1))
        /\ ~FracLess(Fraction(1, 1), Report.consensus_score)
        /\ Cardinality(Successful) < 2 =>
              Report.consensus_score = Fraction(1, 1)

\* C11 witness: two or more successful results with no shared theme and a
\* conflict, so that theme_score - conflict_penalty is negative and the score
\* is the lower end of the range.
C11_Witness ==
    /\ Synthesized
    /\ Cardinality(Successful) >= 2
    /\ Report.themes = <<>>
    /\ Report.conflicts # <<>>
    /\ Report.consensus_score = Fraction(0, 1)

\* The experts of a conflict, and the place of their pair in the enumeration
\* `for i, r1 in enumerate(responses): for r2 in responses[i+1:]`.
PairOf(c) == DOMAIN c.positions
IndexOf(m) == CHOOSE i \in 1..Len(responses) : responses[i].model = m
PairRank(pair) ==
    LET at == {IndexOf(m) : m \in pair}
        lo == CHOOSE i \in at : \A j \in at : i <= j
        hi == CHOOSE i \in at : \A j \in at : i >= j
    IN  lo * (Len(responses) + 1) + hi
\* The pairs of held responses between which a conflict is found.
ConflictingPairs ==
    {pair \in SUBSET {responses[i].model : i \in 1..Len(responses)} :
       /\ Cardinality(pair) = 2
       /\ \E i, j \in 1..Len(responses) :
            /\ i < j
            /\ pair = {responses[i].model, responses[j].model}
            /\ FindConflictsBetween(responses[i], responses[j]) # <<>>}
SuccessfulModels == {inputs[i].model : i \in Successful}

\* C12: the conflicts of a report have pairwise different pairs of experts,
\* each pair being two distinct successful experts; there are at most 5, and
\* they are the first 5 conflicting pairs in pair-enumeration order.
C12_ConflictPairs ==
    Synthesized =>
        LET cs == Report.conflicts
        IN  /\ Len(cs) <= 5
            /\ \A i, j \in 1..Len(cs) : i # j => PairOf(cs[i]) # PairOf(cs[j])
            /\ \A i \in 1..Len(cs) :
                 /\ Cardinality(PairOf(cs[i])) = 2
                 /\ PairOf(cs[i]) \subseteq SuccessfulModels
                 /\ PairOf(cs[i]) \in ConflictingPairs
            /\ \A i, j \in 1..Len(cs) :
                 i < j => PairRank(PairOf(cs[i])) < PairRank(PairOf(cs[j]))
            /\ \/ Len(cs) = Cardinality(ConflictingPairs)
               \/ Len(cs) = 5 /\ Cardinality(ConflictingPairs) > 5
            /\ \A pair \in ConflictingPairs :
                 (\A i \in 1..Len(cs) : PairOf(cs[i]) # pair) =>
                     \A i \in 1..Len(cs) :
                         PairRank(PairOf(cs[i])) < PairRank(pair)

\* C12 witness: four successful experts, all six pairs conflicting, five
\* conflicts reported.
C12_Witness ==
    /\ Synthesized
    /\ Cardinality(Successful) = 4
    /\ Cardinality(ConflictingPairs) = 6
    /\ Len(Report.conflicts) = 5

\* C13: with 0 or 1 successful responses synthesize gives a report whose
\* themes, conflicts and action items are all empty and whose consensus
\* score is 1.
C13_GracefulDegradation ==
    (Synthesized /\ Cardinality(Successful) <= 1) =>
        /\ Report.themes = <<>>
        /\ Report.conflicts = <<>>
        /\ Report.action_items = <<>>
        /\ Report.consensus_score = Fraction(1, 1)

\* C14: consult() with an empty panel does not raise and returns the empty
\* list, no call having been issued; the engine handed that list reports no
\* themes, no conflicts, no action items, an empty domain coverage and a
\* consensus score of 1.
C14_EmptyPanel ==
    models = {} =>
        /\ pc # "raised"
        /\ DOMAIN calls = {} /\ completed = <<>>
        /\ pc = "returned" => sorted_results = <<>>
        /\ spc # "idle" => inputs = <<>>
        /\ Synthesized =>
              /\ Report.themes = <<>>
              /\ Report.conflicts = <<>>
              /\ Report.action_items = <<>>
              /\ DOMAIN Report.domain_coverage = {}
              /\ Report.consensus_score = Fraction(1, 1)

\* C14 witness: the empty panel was dispatched, consult() returned and the
\* engine synthesized its result.
C14_Witness ==
    /\ models = {}
    /\ pc = "returned"
    /\ Synthesized

----------------------------------------------------------------------------
(* api/server.py: POST /query, query_models() over a ThreadPoolExecutor of
   query_ollama_model() calls *)

\* largest number of names in the models list of a request
MaxRequest == 2
\* ThreadPoolExecutor(max_workers=min(len(models_to_query), 8))
MaxWorkers == 8
\* QueryRequest.timeout
DefaultTimeout == 120
\* domain_order.get(r["domain"], 99)
UnknownDomainOrder == 99

\* A name that is no key of the server's MODELS.
NameX == <<"x">>

\* Names of server models of the domains tax, personal and utility.
NameD == <<"d">>
NameE == <<"e">>
NameF == <<"f">>

\* The server's MODELS: name -> domain (color and description, which the
\* handler only copies, are not carried), and its keys in dict order: one
\* model of every domain and a second technical one, grouped by domain.
SERVER_MODELS ==
    (NameB :> [domain |-> "meta"]) @@
    (NameAB :> [domain |-> "technical"]) @@
    (NameA :> [domain |-> "technical"]) @@
    (NameC :> [domain |-> "wealth"]) @@
    (NameD :> [domain |-> "tax"]) @@
    (NameE :> [domain |-> "personal"]) @@
    (NameF :> [domain |-> "utility"])
ServerModelKeys == <<NameB, NameAB, NameA, NameC, NameD, NameE, NameF>>

\* The QueryRequest bodies: models is None or a list of names, known or not.
RECURSIVE SeqsUpTo(_, _)
SeqsUpTo(S, n) ==
    IF n = 0 THEN {<<>>}
    ELSE LET shorter == SeqsUpTo(S, n - 1)
         IN  shorter \cup {Append(q, x) : q \in shorter, x \in S}
Requests ==
    {[models |-> ms, timeout |-> DefaultTimeout] :
       ms \in {None} \cup
              {Some(q) : q \in SeqsUpTo(DOMAIN SERVER_MODELS \cup {NameX},
                                        MaxRequest)}}

\* request.models if request.models else list(MODELS.keys())
ModelsToQuery(request) ==
    IF Truthy(request.models) THEN Value(request.models) ELSE ServerModelKeys

\* A validation that looks at the first requested name only.
InvalidModelsFirstOnly(request) ==
    SelectSeq(Take(ModelsToQuery(request), 1),
              LAMBDA m : m \notin DOMAIN SERVER_MODELS)

\* invalid_models = [m for m in models_to_query if m not in MODELS]
InvalidModels(request) ==
    SelectSeq(ModelsToQuery(request), LAMBDA m : m \notin DOMAIN SERVER_MODELS)

StrSeconds ==
    <<" ", "s", "e", "c", "o", "n", "d", "s">>
StrUnknownError ==
    <<"U", "n", "k", "n", "o", "w", "n", " ", "e", "r", "r", "o", "r">>
StrUnknown ==
    <<"u", "n", "k", "n", "o", "w", "n">>

\* What `ollama run` may print.
TextStdout ==
    <<" ", "U", "s", "e", " ", "a", " ", "l", "o", "g", " ">>
TextStderr ==
    <<"m", "o", "d", "e", "l", " ", "n", "o", "t", " ", "f", "o", "u", "n",
      "d", " ">>

\* What subprocess.run(["ollama", "run", model], timeout=...) does here: it
\* returns with return code 0 and stdout, returns with return code 1 and
\* stderr, or raises TimeoutExpired.  (It may also raise another exception,
\* kind "raised", which query_ollama_model turns into an error result.)
RunOutcomes ==
    { [kind |-> "exit", returncode |-> 0, stdout |-> TextStdout, stderr |-> <<>>],
      [kind |-> "exit", returncode |-> 1, stdout |-> <<>>, stderr |-> TextStderr],
      [kind |-> "timeout", returncode |-> 0, stdout |-> <<>>, stderr |-> <<>>] }

\* model_info.get("domain", "unknown") with model_info = MODELS.get(name, {})
ModelDomain(model_name) ==
    IF model_name \in DOMAIN SERVER_MODELS
    THEN SERVER_MODELS[model_name].domain ELSE "unknown"

\* query_ollama_model(model_name, prompt, timeout): the dict it returns
\* (duration_ms, color and description are not carried)
QueryOllamaModel(model_name, timeout, out) ==
    LET Result(response, error, status) ==
          [model |-> model_name, domain |-> ModelDomain(model_name),
           response |-> response, error |-> error, status |-> status]
    IN  IF out.kind = "exit" /\ out.returncode = 0
        THEN Result(Some(Strip(out.stdout)), None, "success")
        ELSE IF out.kind = "exit"
        THEN Result(None,
                    Some(IF Len(Strip(out.stderr)) > 0 THEN Strip(out.stderr)
                         ELSE StrUnknownError),
                    "error")
        ELSE IF out.kind = "timeout"
        THEN Result(None,
                    Some(StrTimeoutAfter \o IntToStr(timeout) \o StrSeconds),
                    "timeout")
        ELSE Result(None, Some(out.stderr), "error")

\* domain_order = {"meta": 0, "technical": 1, ...}; domain_order.get(d, 99)
DomainOrder(d) ==
    IF d = "meta" THEN 0 ELSE IF d = "technical" THEN 1
    ELSE IF d = "wealth" THEN 2 ELSE IF d = "tax" THEN 3
    ELSE IF d = "personal" THEN 4 ELSE IF d = "utility" THEN 5
    ELSE UnknownDomainOrder

\* (domain_order.get(r["domain"], 99), r["model"]) of x before that of y
SortKeyLess(x, y) ==
    \/ DomainOrder(x.domain) < DomainOrder(y.domain)
    \/ /\ DomainOrder(x.domain) = DomainOrder(y.domain)
       /\ StrLess(x.model, y.model)

\* No sort: the responses stay in submission order.
SortResponsesUnsorted(rs) == rs

\* responses.sort(key=...): stable, the first of the least keys comes first
RECURSIVE SortResponses(_)
SortResponses(rs) ==
    IF Len(rs) = 0 THEN <<>>
    ELSE LET i == CHOOSE k \in 1..Len(rs) :
                    /\ \A j \in 1..Len(rs) : ~SortKeyLess(rs[j], rs[k])
                    /\ \A j \in 1..(k - 1) : SortKeyLess(rs[k], rs[j])
         IN  <<rs[i]>> \o SortResponses(SubSeq(rs, 1, i - 1)
                                         \o SubSeq(rs, i + 1, Len(rs)))

\* The server waits for a request.
InitServer ==
    /\ InitDispatcherIdle
    /\ InitEngineIdle
    /\ InitServerIdle
    /\ InitFeedbackIdle

\* query_models: a name that is no key of MODELS: HTTPException(400)
QueryModelsReject(request) ==
    /\ h_pc = "idle"
    /\ InvalidModels(request) # <<>>
    /\ h_request' = Some(request)
    /\ h_pc' = "rejected"
    /\ UNCHANGED <<h_calls, h_results, h_response, dvars, svars, fvars>>

\* query_models: every name is known: one query_ollama_model call per name
\* is submitted to the executor, and the handler waits on the first future
QueryModelsSubmit(request) ==
    /\ h_pc = "idle"
    /\ InvalidModels(request) = <<>>
    /\ h_request' = Some(request)
    /\ h_calls' = [i \in 1..Len(ModelsToQuery(request)) |-> "queued"]
    /\ h_results' = [i \in 1..Len(ModelsToQuery(request)) |-> None]
    /\ h_pc' = "waiting"
    /\ UNCHANGED <<h_response, dvars, svars, fvars>>

\* a free worker thread of the executor takes a submitted call and enters
\* subprocess.run
WorkerStart(i) ==
    /\ h_pc = "waiting"
    /\ h_calls[i] = "queued"
    /\ LET n == Len(h_calls)
           workers == IF n < MaxWorkers THEN n ELSE MaxWorkers
       IN  Cardinality({j \in 1..n : h_calls[j] = "running"}) < workers
    /\ h_calls' = [h_calls EXCEPT ![i] = "running"]
    /\ UNCHANGED <<h_pc, h_request, h_results, h_response, dvars, svars, fvars>>

\* subprocess.run ends; query_ollama_model returns its dict to the future
WorkerFinish(i, out) ==
    /\ h_pc = "waiting"
    /\ h_calls[i] = "running"
    /\ h_calls' = [h_calls EXCEPT ![i] = "done"]
    /\ h_results' =
         [h_results EXCEPT ![i] =
            Some(QueryOllamaModel(ModelsToQuery(Value(h_request))[i],
                                  Value(h_request).timeout, out))]
    /\ UNCHANGED <<h_pc, h_request, h_response, dvars, svars, fvars>>

\* every future.result() has returned: the responses, in submission order,
\* are sorted and the QueryResponse is returned
QueryModelsRespond ==
    /\ h_pc = "waiting"
    /\ \A i \in 1..Len(h_calls) : h_calls[i] = "done"
    /\ LET rs == [i \in 1..Len(h_results) |-> Value(h_results[i])]
       IN  h_response' =
             Some([models_queried |-> Len(ModelsToQuery(Value(h_request))),
                   models_succeeded |->
                     Cardinality({i \in 1..Len(rs) : rs[i].status = "success"}),
                   responses |-> SortResponses(rs)])
    /\ h_pc' = "responded"
    /\ UNCHANGED <<h_request, h_calls, h_results, dvars, svars, fvars>>

NextServer ==
    \/ \E request \in Requests : QueryModelsReject(request)
    \/ \E request \in Requests : QueryModelsSubmit(request)
    \/ \E i \in DOMAIN h_calls : WorkerStart(i)
    \/ \E i \in DOMAIN h_calls : \E out \in RunOutcomes : WorkerFinish(i, out)
    \/ QueryModelsRespond

SpecServer == InitServer /\ [][NextServer]_vars

\* C15: a request that names an expert the registry does not hold is
\* rejected as a whole: no call of it is ever submitted or started, for its
\* known names either, and it gets no response; and only such a request is
\* rejected.
C15_ValidationBeforeDispatch ==
    h_request # None =>
        LET request == Value(h_request)
            unknown == \E i \in 1..Len(ModelsToQuery(request)) :
                          ModelsToQuery(request)[i] \notin DOMAIN SERVER_MODELS
        IN  /\ unknown => /\ h_pc = "rejected"
                          /\ h_calls = <<>>
                          /\ h_results = <<>>
                          /\ h_response = None
            /\ h_pc = "rejected" => unknown

\* C15 witness: a rejected request that names a known expert before an
\* unknown one.
C15_Witness ==
    /\ h_pc = "rejected"
    /\ h_request # None
    /\ Len(ModelsToQuery(Value(h_request))) = 2
    /\ ModelsToQuery(Value(h_request))[1] \in DOMAIN SERVER_MODELS
    /\ ModelsToQuery(Value(h_request))[2] = NameX

\* The experts a report refers to: in a theme's supporting models, in a
\* conflict's positions, in an action item's source models.
ThemeModels ==
    UNION {SeqToSet(Report.themes[i].supporting_models) :
             i \in 1..Len(Report.themes)}
ConflictModels ==
    UNION {DOMAIN Report.conflicts[i].positions : i \in 1..Len(Report.conflicts)}
ActionModels ==
    UNION {Report.action_items[i].source_models :
             i \in 1..Len(Report.action_items)}

\* C16: every expert a report refers to is the expert of an input result
\* with status success and a non-empty response.
C16_Traceability ==
    Synthesized =>
        /\ ThemeModels \subseteq SuccessfulModels
        /\ ConflictModels \subseteq SuccessfulModels
        /\ ActionModels \subseteq SuccessfulModels

\* C16 witness: a report with themes, conflicts and action items, built from
\* a list that also holds a result that is not successful.
C16_Witness ==
    /\ Synthesized
    /\ Cardinality(Successful) < Len(inputs)
    /\ ThemeModels # {}
    /\ ConflictModels # {}
    /\ ActionModels # {}

\* The candidate actions of the held responses in extraction order, the key
\* of a text (its first 50 characters, lowercased) and the candidates of a key.
Candidates == AllActions(responses)
GroupKey(text) == Lower(Take(text, 50))
GroupOf(key) ==
    {k \in 1..Len(Candidates) : GroupKey(Candidates[k].action) = key}

\* C17: the action items of a report have pairwise different keys; each
\* carries the highest priority of the candidates of its key, the text of a
\* candidate of that priority, and as source experts exactly the union of
\* the source experts of the candidates of its key.
C17_ActionMerge ==
    Synthesized =>
        LET items == Report.action_items
        IN  /\ \A i, j \in 1..Len(items) :
                 i # j => GroupKey(items[i].action) # GroupKey(items[j].action)
            /\ \A i \in 1..Len(items) :
                 LET g == GroupOf(GroupKey(items[i].action))
                 IN  /\ g # {}
                     /\ \A k \in g : PriorityOrder(items[i].priority)
                                        <= PriorityOrder(Candidates[k].priority)
                     /\ \E k \in g :
                          /\ Candidates[k].action = items[i].action
                          /\ Candidates[k].priority = items[i].priority
                     /\ items[i].source_models =
                          UNION {Candidates[k].source_models : k \in g}

\* C17 witness: an action item merged from the candidates of three experts,
\* the first of which has a lower priority than the item.
C17_Witness ==
    /\ Synthesized
    /\ \E i \in 1..Len(Report.action_items) :
         LET item == Report.action_items[i]
             g == GroupOf(GroupKey(item.action))
             first == CHOOSE k \in g : \A j \in g : k <= j
         IN  /\ Cardinality(item.source_models) = 3
             /\ item.priority = "high"
             /\ Candidates[first].priority = "low"

StrStartWithAWal ==
    <<"s", "t", "a", "r", "t", " ", "w", "i", "t", "h", " ", "a", " ", "w",
      "a", "l">>
StrHowever ==
    <<"h", "o", "w", "e", "v", "e", "r">>

\* The expert whose held response is the given text.
ExpertOf(text) ==
    responses[CHOOSE i \in 1..Len(responses) :
                responses[i].response = Some(text)].model
\* Three successful experts answered, one with each text of the scenario.
IsWalScenario ==
    /\ Len(responses) = 3
    /\ \A text \in {TextWalA, TextWalB, TextWalC} :
         \E i \in 1..Len(responses) : responses[i].response = Some(text)

\* C18: in the write-ahead-log scenario the report has a theme "start with
\* a wal" supported by exactly the experts of A and B with confidence 2/3,
\* and a conflict between the experts of A and C on a topic holding
\* "however".
C18_WorkedScenario ==
    (Synthesized /\ IsWalScenario) =>
        /\ \E i \in 1..Len(Report.themes) :
             /\ Report.themes[i].theme = StrStartWithAWal
             /\ SeqToSet(Report.themes[i].supporting_models)
                  = {ExpertOf(TextWalA), ExpertOf(TextWalB)}
             /\ FracEq(Report.themes[i].confidence, Fraction(2, 3))
        /\ \E j \in 1..Len(Report.conflicts) :
             /\ DOMAIN Report.conflicts[j].positions
                  = {ExpertOf(TextWalA), ExpertOf(TextWalC)}
             /\ Contains(Lower(Report.conflicts[j].topic), StrHowever)

\* The sum of the confidences of the themes of the report, as a number of
\* N-ths, N the number of successful results.
RECURSIVE ConfidenceSum(_, _)
ConfidenceSum(themes, N) ==
    IF Len(themes) = 0 THEN 0
    ELSE (themes[1].confidence.num * N) \div themes[1].confidence.den
         + ConfidenceSum(Tail(themes), N)

\* C19: with 2 or more successful results the consensus score of the report
\* is themeScore - 0.1 * |conflicts| clamped to [0, 1], themeScore being the
\* sum of the confidences of the report's themes over max(1, their number),
\* and conflicts the report's conflicts.
C19_ConsensusFormula ==
    (Synthesized /\ Cardinality(Successful) >= 2) =>
        LET N == Cardinality(Successful)
            count == IF Len(Report.themes) >= 1 THEN Len(Report.themes) ELSE 1
            \* themeScore - penalty = num / den, den > 0
            num == 10 * ConfidenceSum(Report.themes, N)
                   - Len(Report.conflicts) * N * count
            den == 10 * N * count
            score == Report.consensus_score
        IN  IF num <= 0 THEN score.num = 0
            ELSE IF num >= den THEN score.num = score.den
            ELSE score.num * den = num * score.den

\* C19 witness: a report with themes and conflicts whose score lies strictly
\* between 0 and 1.
C19_Witness ==
    /\ Synthesized
    /\ Cardinality(Successful) >= 2
    /\ Report.themes # <<>>
    /\ Report.conflicts # <<>>
    /\ FracLess(Fraction(0, 1), Report.consensus_score)
    /\ FracLess(Report.consensus_score, Fraction(1, 1))

\* The text holds one of the contrast indicators; the report has a conflict
\* for the pair of experts.
HasConflictIndicator(text) == ContainsAny(Lower(text), CONFLICT_INDICATORS)
Reported(pair) ==
    \E k \in 1..Len(Report.conflicts) : PairOf(Report.conflicts[k]) = pair

\* C20: a pair of successful results is reported as a conflict if one of the
\* two responses holds a contrast indicator, unless 5 conflicts are reported
\* already, and is not reported if neither holds one.
C20_ConflictRule ==
    Synthesized =>
        \A i, j \in 1..Len(responses) :
            i < j =>
                LET pair == {responses[i].model, responses[j].model}
                    either == \/ HasConflictIndicator(Value(responses[i].response))
                              \/ HasConflictIndicator(Value(responses[j].response))
                IN  /\ either => (Reported(pair) \/ Len(Report.conflicts) = 5)
                    /\ ~either => ~Reported(pair)

\* The phrases the successful responses gave, each with the place of the
\* response that gave it.
GivenPhrases ==
    UNION {{<<i, ph>> : ph \in ExtractKeyPhrases(Value(responses[i].response))} :
             i \in 1..Len(responses)}
\* The share of the successful responses that gave phrase ph.
ShareOf(ph) ==
    Fraction(Cardinality({g \in GivenPhrases : g[2] = ph}), Len(responses))
\* The phrases at least 2 responses gave that the report does not list.
OmittedThemes ==
    {ph \in {g[2] : g \in GivenPhrases} :
       /\ ShareOf(ph).num >= 2
       /\ \A i \in 1..Len(Report.themes) : Report.themes[i].theme # ph}

\* C21: extract_themes returns at most 10 themes, in non-increasing order of
\* confidence, and no phrase shared by two or more experts that it leaves out
\* has a strictly higher confidence than a theme it returns.
C21_ThemeOrderAndCap ==
    Synthesized =>
        LET themes == Report.themes
        IN  /\ Len(themes) <= 10
            /\ \A i \in 1..(Len(themes) - 1) :
                 ~FracLess(themes[i].confidence, themes[i + 1].confidence)
            /\ \A ph \in OmittedThemes : \A i \in 1..Len(themes) :
                 ~FracLess(themes[i].confidence, ShareOf(ph))

\* C21 witness: eleven phrases are shared, of three different confidences;
\* the report lists 10 of them and leaves one out.
C21_Witness ==
    /\ Synthesized
    /\ Len(Report.themes) = 10
    /\ OmittedThemes # {}
    /\ Cardinality({Report.themes[i].confidence :
                      i \in 1..Len(Report.themes)}) = 3

\* The key and the rank of every candidate that shares its key with no action
\* item of the report.
OmittedCandidates ==
    LET candidates == Candidates
        listed == {GroupKey(Report.action_items[i].action) :
                     i \in 1..Len(Report.action_items)}
        ranked == {<<GroupKey(candidates[k].action),
                     PriorityOrder(candidates[k].priority)>> :
                     k \in 1..Len(candidates)}
    IN  {c \in ranked : c[1] \notin listed}

\* C22: extract_actions returns at most 10 items, in non-decreasing priority
\* rank (high before medium before low), and no merged action it leaves out
\* has a strictly higher priority than an item it returns.
C22_ActionOrderAndCap ==
    Synthesized =>
        LET items == Report.action_items
            omitted == OmittedCandidates
        IN  /\ Len(items) <= 10
            /\ \A i \in 1..(Len(items) - 1) :
                 PriorityOrder(items[i].priority)
                   <= PriorityOrder(items[i + 1].priority)
            /\ \A c \in omitted : \A i \in 1..Len(items) :
                 PriorityOrder(items[i].priority) <= c[2]

\* C22 witness: eleven merged actions of all three priorities, the first
\* candidate a low one; the report lists 10 and leaves one out.
C22_Witness ==
    /\ Synthesized
    /\ Len(Report.action_items) = 10
    /\ OmittedCandidates # {}
    /\ Candidates[1].priority = "low"
    /\ {Report.action_items[i].priority : i \in 1..10}
         = {"high", "medium", "low"}

\* C23: a candidate action whose sentence contains a high keyword has priority
\* high, also when it contains a medium keyword; one with no high keyword and
\* a medium keyword has priority medium; every other candidate has priority
\* low.
C23_PriorityTiers ==
    Synthesized =>
        LET candidates == Candidates
        IN  \A k \in 1..Len(candidates) :
                LET sentence == Lower(candidates[k].action)
                    high == ContainsAny(sentence, PRIORITY_HIGH)
                    medium == ContainsAny(sentence, PRIORITY_MEDIUM)
                IN  /\ high => candidates[k].priority = "high"
                    /\ (~high /\ medium) => candidates[k].priority = "medium"
                    /\ (~high /\ ~medium) => candidates[k].priority = "low"

\* C23 witness: three candidates, one with a high and a medium keyword, one
\* with a medium keyword only and one with neither.
C23_Witness ==
    /\ Synthesized
    /\ LET candidates == Candidates
       IN  /\ Len(candidates) = 3
           /\ \E k \in 1..3 :
                /\ ContainsAny(Lower(candidates[k].action), PRIORITY_HIGH)
                /\ ContainsAny(Lower(candidates[k].action), PRIORITY_MEDIUM)
           /\ \E k \in 1..3 : candidates[k].priority = "medium"
           /\ \E k \in 1..3 : candidates[k].priority = "low"

\* C28: with at least 2 successful responses and no theme extracted, the
\* consensus score of the report is exactly 0, with or without conflicts.
C28_ZeroConsensus ==
    (Synthesized /\ Cardinality(Successful) >= 2 /\ Report.themes = <<>>) =>
        /\ Report.consensus_score.num = 0
        /\ Report.consensus_score.den # 0

\* C28 witness: three successful responses that share no phrase and hold no
\* conflict; the score is 0.
C28_Witness ==
    /\ Synthesized
    /\ Cardinality(Successful) = 3
    /\ Report.themes = <<>>
    /\ Report.conflicts = <<>>
    /\ Report.consensus_score.num = 0

\* C28, second case: two successful responses that share no phrase and
\* conflict with each other.
C28_WitnessConflict ==
    /\ Synthesized
    /\ Cardinality(Successful) = 2
    /\ Report.themes = <<>>
    /\ Report.conflicts # <<>>
    /\ Report.consensus_score.num = 0

\* C29: while a call waits for a slot its clock stands at 0, its endpoint has
\* not been invoked and it does not end; a call ends only when in flight,
\* after exactly one invocation of its endpoint, with status timeout only
\* when the time since its admission equals its expert's timeout, and with
\* the time since its admission as duration_ms.
C29_ClockStartsAtAdmission ==
    [][\A e \in models :
         /\ task[e] = "waiting" =>
              /\ elapsed[e] = 0
              /\ elapsed'[e] = 0
              /\ calls[e] = 0
              /\ outcome'[e] = NoOutcome
         /\ (outcome[e] = NoOutcome /\ outcome'[e] # NoOutcome) =>
              /\ task[e] = "inflight"
              /\ calls[e] = 1
              /\ ~outcome'[e].raised =>
                   LET result == Value(outcome'[e].result)
                   IN  /\ result.duration_ms = DurationMs(elapsed[e])
                       /\ result.status = "timeout" =>
                            elapsed[e] = MODELS[e].timeout]_vars

\* C29 witness: with one slot, the first call timed out while a second one
\* waited; the second one was then admitted and answered at once, with
\* status success and duration_ms 0.
C29_Witness ==
    /\ max_concurrent = 1
    /\ Len(completed) >= 2
    /\ TimedOut(completed[1])
    /\ HasResult(completed[2])
    /\ ResultOf(completed[2]).status = "success"
    /\ ResultOf(completed[2]).duration_ms = 0
    /\ calls[completed[2]] = 1

\* The place of a domain in the order meta, technical, wealth, tax, personal,
\* utility.
DomainPlace(d) ==
    CHOOSE k \in 1..6 :
        <<"meta", "technical", "wealth", "tax", "personal", "utility">>[k] = d
\* The names a request asks for: its list, or every model of the registry
\* when the list is None or empty.
Requested(request) ==
    IF request.models = None \/ Value(request.models) = <<>>
    THEN ServerModelKeys
    ELSE Value(request.models)
\* How often x occurs in seq.
Occurrences(seq, x) == Cardinality({i \in 1..Len(seq) : seq[i] = x})

\* C26: the response of POST /query holds one entry per requested name (per
\* model of the registry when the list is None or empty), each with the
\* result of one of the calls for that name; the entries are ordered by the
\* place of their domain, then by model name ascending; models_queried is the
\* number of entries and models_succeeded the number with status success.
C26_QueryOrdering ==
    h_pc = "responded" =>
        LET requested == Requested(Value(h_request))
            response == Value(h_response)
            entries == response.responses
            names == [i \in 1..Len(entries) |-> entries[i].model]
            results == [i \in 1..Len(h_results) |-> Value(h_results[i])]
        IN  /\ Len(entries) = Len(requested)
            /\ \A m \in DOMAIN SERVER_MODELS :
                 Occurrences(names, m) = Occurrences(requested, m)
            /\ \A i \in 1..Len(entries) :
                 /\ entries[i].domain = SERVER_MODELS[entries[i].model].domain
                 /\ Occurrences(entries, entries[i])
                      = Occurrences(results, entries[i])
            /\ \A i, j \in 1..Len(entries) :
                 i < j =>
                   \/ DomainPlace(entries[i].domain)
                        < DomainPlace(entries[j].domain)
                   \/ /\ entries[i].domain = entries[j].domain
                      /\ \/ StrLess(entries[i].model, entries[j].model)
                         \/ entries[i].model = entries[j].model
            /\ response.models_queried = Len(entries)
            /\ response.models_succeeded
                 = Cardinality({i \in 1..Len(entries) :
                                  entries[i].status = "success"})

\* C26 witness: a request with an empty list is answered with the seven models
\* of the registry, not in registry order, some successful and some not.
C26_Witness ==
    /\ h_pc = "responded"
    /\ Value(h_request).models = Some(<<>>)
    /\ Len(Value(h_response).responses) = 7
    /\ [i \in 1..7 |-> Value(h_response).responses[i].model] # ServerModelKeys
    /\ Value(h_response).models_succeeded = 4

\* C26, second case: two names asked for in the order utility, meta are
\* answered in the order meta, utility.
C26_WitnessReordered ==
    /\ h_pc = "responded"
    /\ Value(h_request).models = Some(<<NameF, NameB>>)
    /\ Value(h_response).responses[1].model = NameB
    /\ Value(h_response).responses[2].model = NameF

\* C24 (steps): a call that finishes, with a result or with an exception,
\* frees exactly one slot.
C24_ReleaseStep ==
    \A e \in models :
        (task[e] = "inflight" /\ task'[e] = "done") =>
            semaphore' = semaphore + 1

\* C24 (states): the dispatcher returns only when every call has settled, and
\* a dispatch in which no step is left has admitted every call and has
\* returned.
C24_EndState ==
    /\ pc = "returned" => \A e \in models : task[e] = "done"
    /\ ~ENABLED Next =>
         /\ \A e \in models : calls[e] = 1
         /\ pc = "returned"

\* C24: a slot is freed whenever a call in flight finishes, so every waiting
\* call is admitted and the dispatcher returns, and it returns only after all
\* calls have settled.
C24_DispatchTerminates == []C24_EndState /\ [][C24_ReleaseStep]_vars

\* The results the dispatcher holds: the heap while it collects, the sorted
\* list once it has returned.
Collected ==
    IF pc = "returned" THEN sorted_results
    ELSE [i \in 1..Len(results_heap) |-> results_heap[i].result]

\* C25: no result is held twice or altered, and once the dispatch has ended
\* the result of every call that completed with one is held exactly once.
C25_CollectedOnce ==
    /\ \A e \in models :
         Cardinality({i \in 1..Len(Collected) : Collected[i].model = e}) <= 1
    /\ \A i \in 1..Len(Collected) :
         /\ HasResult(Collected[i].model)
         /\ Collected[i] = ResultOf(Collected[i].model)
    /\ pc \in {"returned", "raised"} =>
         \A e \in models :
             HasResult(e) => \E i \in 1..Len(Collected) : Collected[i].model = e

----------------------------------------------------------------------------
(* FeedbackCapture: feedback_log.jsonl holds one JSON object per line; every
   CLI run is a process of its own with its own FeedbackCapture() *)

\* largest number of FeedbackCapture calls in a run of the model
MaxOps == 4

\* The query hashes (sha256(...).hexdigest()[:12], here one hex digit), the
\* model a rating names, and the texts of an action and of notes.
Hashes == {<<"1">>, <<"2">>}
RatedModels == {NameA}
TextAction == <<"x">>
TextNotes == <<"\"", "n">>

\* The fields of FeedbackEntry that are carried (question, models_used and
\* timestamp are written once and only copied), and the Optional[bool] one.
EntryFields ==
    {"query_hash", "synthesis_helpful", "best_model", "worst_model",
     "action_taken", "user_notes"}
BoolFields == {"synthesis_helpful"}

\* FeedbackEntry(query_hash=..., question=..., models_used=...)
FeedbackEntry(query_hash) ==
    [query_hash |-> Some(query_hash), synthesis_helpful |-> None,
     best_model |-> None, worst_model |-> None, action_taken |-> None,
     user_notes |-> None]

\* json.dumps of a str: quotes around it, a backslash before " and \
RECURSIVE JsonEscape(_)
JsonEscape(s) ==
    IF Len(s) = 0 THEN <<>>
    ELSE (IF Head(s) \in {"\"", "\\"} THEN <<"\\", Head(s)>> ELSE <<Head(s)>>)
         \o JsonEscape(Tail(s))
RECURSIVE JsonUnescape(_)
JsonUnescape(t) ==
    IF Len(t) = 0 THEN <<>>
    ELSE IF Head(t) = "\\" THEN <<t[2]>> \o JsonUnescape(Tail(Tail(t)))
    ELSE <<Head(t)>> \o JsonUnescape(Tail(t))

JsonNull == <<"n", "u", "l", "l">>
JsonTrue == <<"t", "r", "u", "e">>
JsonFalse == <<"f", "a", "l", "s", "e">>

\* json.dumps / json.loads of the value of one field
JsonDumpsValue(field, v) ==
    IF IsNone(v) THEN JsonNull
    ELSE IF field \in BoolFields
         THEN (IF Value(v) THEN JsonTrue ELSE JsonFalse)
    ELSE <<"\"">> \o JsonEscape(Value(v)) \o <<"\"">>
JsonLoadsValue(text) ==
    IF text = JsonNull THEN None
    ELSE IF text = JsonTrue THEN Some(TRUE)
    ELSE IF text = JsonFalse THEN Some(FALSE)
    ELSE Some(JsonUnescape(SubSeq(text, 2, Len(text) - 1)))

\* json.dumps(entry) + "\n" and json.loads(line), field by field
JsonDumps(entry) == [k \in EntryFields |-> JsonDumpsValue(k, entry[k])]
JsonLoads(line) == [k \in EntryFields |-> JsonLoadsValue(line[k])]

\* An update that forgets the key: every entry gets the new value.
UpdatedEntriesEvery(lines, query_hash, field, value) ==
    [i \in 1..Len(lines) |-> [JsonLoads(lines[i]) EXCEPT ![field] = value]]

\* _update_feedback, the first loop: every line parsed, and the updates
\* applied to the entries whose query_hash is the given one.
UpdatedEntries(lines, query_hash, field, value) ==
    [i \in 1..Len(lines) |->
       LET entry == JsonLoads(lines[i])
       IN  IF entry.query_hash = Some(query_hash)
           THEN [entry EXCEPT ![field] = value]
           ELSE entry]

\* _update_model_stats: stats[model] with total and positive or negative
\* raised by one, written back to model_stats.json
UpdateModelStats(stats, rated) ==
    LET old == IF rated.model \in DOMAIN stats THEN stats[rated.model]
               ELSE [positive |-> 0, negative |-> 0, total |-> 0]
        new == [positive |-> old.positive + (IF rated.is_best THEN 1 ELSE 0),
                negative |-> old.negative + (IF rated.is_best THEN 0 ELSE 1),
                total |-> old.total + 1]
    IN  [m \in DOMAIN stats \cup {rated.model} |->
           IF m = rated.model THEN new ELSE stats[m]]

\* A process that is in no FeedbackCapture call.
IdleProcess ==
    [pc |-> "idle", query_hash |-> None, updates |-> None, entries |-> <<>>,
     rated |-> None]

\* log_query: _append_feedback opens the file with "a" (creating it) and
\* writes one line; the hash is returned.
LogQuery(p, query_hash) ==
    /\ f_proc[p].pc = "idle"
    /\ f_ops < MaxOps
    /\ f_ops' = f_ops + 1
    /\ f_log' = Some((IF f_log = None THEN <<>> ELSE Value(f_log))
                     \o <<JsonDumps(FeedbackEntry(query_hash))>>)
    /\ query_hashes' = Append(query_hashes, query_hash)
    /\ UNCHANGED <<f_stats, f_proc, dvars, svars, hvars>>

\* _update_feedback(query_hash, {field: value}) up to the end of its first
\* `with`: it returns at once when the file does not exist, else it has read
\* the whole file.  rated is the rating rate_model hands to
\* _update_model_stats afterwards (None for the other callers); when
\* _update_feedback returned at once, that call follows here.
UpdateFeedback(p, query_hash, field, value, rated) ==
    /\ f_proc[p].pc = "idle"
    /\ f_ops < MaxOps
    /\ f_ops' = f_ops + 1
    /\ IF f_log = None
       THEN /\ f_proc' = f_proc
            /\ f_stats' = IF rated = None THEN f_stats
                          ELSE UpdateModelStats(f_stats, Value(rated))
       ELSE /\ f_proc' =
                 [f_proc EXCEPT ![p] =
                    [pc |-> "updating",
                     query_hash |-> Some(query_hash),
                     updates |-> Some([field |-> field, value |-> value]),
                     entries |-> UpdatedEntries(Value(f_log), query_hash,
                                                field, value),
                     rated |-> rated]]
            /\ f_stats' = f_stats
    /\ UNCHANGED <<f_log, query_hashes, dvars, svars, hvars>>

\* rate_synthesis(query_hash, helpful)
RateSynthesis(p, query_hash, helpful) ==
    UpdateFeedback(p, query_hash, "synthesis_helpful", Some(helpful), None)

\* rate_model(query_hash, model, is_best)
RateModel(p, query_hash, model, is_best) ==
    UpdateFeedback(p, query_hash,
                   IF is_best THEN "best_model" ELSE "worst_model",
                   Some(model), Some([model |-> model, is_best |-> is_best]))

\* log_action(query_hash, action)
LogAction(p, query_hash, action) ==
    UpdateFeedback(p, query_hash, "action_taken", Some(action), None)

\* add_notes(query_hash, notes)
AddNotes(p, query_hash, notes) ==
    UpdateFeedback(p, query_hash, "user_notes", Some(notes), None)

\* _update_feedback, the second `with`: the file is opened with "w" and every
\* entry read before is written back; rate_model then updates the stats.
Rewrite(p) ==
    /\ f_proc[p].pc = "updating"
    /\ f_log' = Some([i \in 1..Len(f_proc[p].entries) |->
                        JsonDumps(f_proc[p].entries[i])])
    /\ f_stats' = IF f_proc[p].rated = None THEN f_stats
                  ELSE UpdateModelStats(f_stats, Value(f_proc[p].rated))
    /\ f_proc' = [f_proc EXCEPT ![p] = IdleProcess]
    /\ UNCHANGED <<f_ops, query_hashes, dvars, svars, hvars>>

NextFeedback ==
    \/ \E p \in DOMAIN f_proc : \E h \in Hashes : LogQuery(p, h)
    \/ \E p \in DOMAIN f_proc : \E h \in Hashes : \E helpful \in BOOLEAN :
         RateSynthesis(p, h, helpful)
    \/ \E p \in DOMAIN f_proc : \E h \in Hashes : \E m \in RatedModels :
         \E is_best \in BOOLEAN : RateModel(p, h, m, is_best)
    \/ \E p \in DOMAIN f_proc : \E h \in Hashes : LogAction(p, h, TextAction)
    \/ \E p \in DOMAIN f_proc : \E h \in Hashes : AddNotes(p, h, TextNotes)
    \/ \E p \in DOMAIN f_proc : Rewrite(p)

\* One process at a time uses FeedbackCapture, starting with no log file.
InitFeedback ==
    /\ InitDispatcherIdle
    /\ InitEngineIdle
    /\ InitServerIdle
    /\ f_log = None
    /\ f_stats = <<>>
    /\ f_proc = [p \in {1} |-> IdleProcess]
    /\ f_ops = 0
    /\ query_hashes = <<>>

SpecFeedback == InitFeedback /\ [][NextFeedback]_vars

\* Two processes use FeedbackCapture at the same time; an earlier run has
\* logged one query.
InitFeedbackTwo ==
    /\ InitDispatcherIdle
    /\ InitEngineIdle
    /\ InitServerIdle
    /\ \E h \in Hashes :
         /\ f_log = Some(<<JsonDumps(FeedbackEntry(h))>>)
         /\ query_hashes = <<h>>
    /\ f_stats = <<>>
    /\ f_proc = [p \in {1, 2} |-> IdleProcess]
    /\ f_ops = 1

SpecFeedbackTwo == InitFeedbackTwo /\ [][NextFeedback]_vars

\* The lines of the log file (none when it does not exist), now and after
\* the step.
LogLines == IF f_log = None THEN <<>> ELSE Value(f_log)
LogLinesAfter == IF f_log' = None THEN <<>> ELSE Value(f_log')

\* C27 (steps): a step that begins an update leaves the log file as it is; the
\* step that ends it leaves the number and the order of the lines, every line
\* with another query_hash and every other field of the lines with the given
\* query_hash as they were, and gives the named field of those lines the new
\* value; so an update for a hash that is in no line leaves the file as it is.
C27_UpdateStep ==
    \A p \in DOMAIN f_proc :
        /\ (f_proc[p].pc = "idle" /\ f_ops' # f_ops
              /\ query_hashes' = query_hashes) => f_log' = f_log
        /\ (f_proc[p].pc = "updating" /\ f_proc'[p].pc = "idle") =>
             LET key == f_proc[p].query_hash
                 field == Value(f_proc[p].updates).field
                 value == Value(f_proc[p].updates).value
                 Matches(i) == JsonLoadsValue(LogLines[i].query_hash) = key
             IN  /\ Len(LogLinesAfter) = Len(LogLines)
                 /\ \A i \in 1..Len(LogLines) :
                      IF Matches(i)
                      THEN /\ JsonLoadsValue(LogLinesAfter[i][field]) = value
                           /\ \A k \in EntryFields \ {field} :
                                LogLinesAfter[i][k] = LogLines[i][k]
                      ELSE LogLinesAfter[i] = LogLines[i]
                 /\ (\A i \in 1..Len(LogLines) : ~Matches(i)) => f_log' = f_log

\* C27: an update keyed by a query hash changes only the named field of the
\* log entries with that hash.
C27_UpdateFrame == [][C27_UpdateStep]_vars

\* C27 witness: a log of two entries with different hashes after an update of
\* the notes of the first: the first carries the notes, the second is as
\* log_query wrote it.
C27_Witness ==
    /\ Len(LogLines) = 2
    /\ f_proc[1].pc = "idle"
    /\ LogLines[1].query_hash # LogLines[2].query_hash
    /\ JsonLoads(LogLines[1]).user_notes = Some(TextNotes)
    /\ JsonLoads(LogLines[2])
         = FeedbackEntry(Value(JsonLoads(LogLines[2]).query_hash))

\* C30 (states): the log file holds one line for every hash log_query has
\* returned, in the order of the calls.
C30_EntriesKept ==
    /\ Len(LogLines) = Len(query_hashes)
    /\ \A i \in 1..Len(LogLines) :
         JsonLoadsValue(LogLines[i].query_hash) = Some(query_hashes[i])

\* C30 (steps): when an update ends, every line with its hash shows its value.
C30_UpdateVisible ==
    \A p \in DOMAIN f_proc :
        (f_proc[p].pc = "updating" /\ f_proc'[p].pc = "idle") =>
            \A i \in 1..Len(LogLinesAfter) :
                JsonLoadsValue(LogLinesAfter[i].query_hash) = f_proc[p].query_hash
                  => JsonLoadsValue(LogLinesAfter[i][
                                      Value(f_proc[p].updates).field])
                       = Value(f_proc[p].updates).value

\* C30: when log_query and an update of two processes interleave, every entry
\* log_query appended is still in the log afterwards and every update applied
\* is visible.
C30_LogKeepsEntries == []C30_EntriesKept /\ [][C30_UpdateVisible]_vars

=============================================================================
